---- MODULE Spec2Model ----
(***************************************************************************)
(* Model of rnltk: the Porter stemmer (src/src/stem.rs), the term          *)
(* frequency builders (src/src/token.rs), the sentiment lexicons           *)
(* (src/src/sentiment.rs) and the LSA entry point (src/src/document.rs).   *)
(*                                                                         *)
(* A word is a sequence of bytes (integers 0..255).  The Stemmer struct    *)
(* is the triple (bytes, bytes_length, offset); source indices are         *)
(* 0-based, TLA+ sequences 1-based, so self.bytes[i] is bytes[i + 1].      *)
(* A Rust panic (index out of range, usize underflow used as an index) is  *)
(* modelled by the field `panicked`: a debug build panics at the           *)
(* subtraction, a release build wraps and panics at the index that uses    *)
(* the wrapped value, so both builds unwind out of stem::get.              *)
(***************************************************************************)
EXTENDS Integers, Sequences, FiniteSets, TLC

VARIABLES word, bytes, bytes_length, offset, pc, result, orig, calls,
          tf_call, tf_ret,
          custom_words, custom_stems, s_call, s_ret, s_ops,
          tfidf_matrix, lsa_k, lsa_ret

\* the variables of a call of stem::get
stemVars == <<word, bytes, bytes_length, offset, pc, result, orig, calls>>

\* a call of a term frequency builder and what it returned
tokenVars == <<tf_call, tf_ret>>

\* a SentimentModel, the last call on it and what it returned
sentimentVars == <<custom_words, custom_stems, s_call, s_ret, s_ops>>

\* a TfidfMatrix and a call of get_lsa_cosine_similarity_from_tfidf
lsaVars == <<tfidf_matrix, lsa_k, lsa_ret>>

vars == <<stemVars, tokenVars, sentimentVars, lsaVars>>

----------------------------------------------------------------------------
(* Byte values of characters.                                              *)

Lower == <<"a","b","c","d","e","f","g","h","i","j","k","l","m",
           "n","o","p","q","r","s","t","u","v","w","x","y","z">>

Upper == <<"A","B","C","D","E","F","G","H","I","J","K","L","M",
           "N","O","P","Q","R","S","T","U","V","W","X","Y","Z">>

\* the byte of an ASCII letter: b'a' = 97 .. b'z' = 122, b'A' = 65 .. b'Z' = 90
Code(c) ==
    IF \E k \in 1..26 : Lower[k] = c
    THEN 96 + (CHOOSE k \in 1..26 : Lower[k] = c)
    ELSE 64 + (CHOOSE k \in 1..26 : Upper[k] = c)

\* the bytes of a string literal, given as its characters
W(chars) == [k \in 1..Len(chars) |-> Code(chars[k])]

\* u8::is_ascii
is_ascii_byte(b) == b < 128

\* str::is_ascii
is_ascii(w) == \A k \in 1..Len(w) : is_ascii_byte(w[k])

\* u8::to_ascii_lowercase: only b'A'..=b'Z' change
byte_to_ascii_lowercase(b) == IF b >= 65 /\ b <= 90 THEN b + 32 ELSE b

\* str::to_ascii_lowercase
to_ascii_lowercase(w) == [k \in 1..Len(w) |-> byte_to_ascii_lowercase(w[k])]

\* a &str is valid UTF-8: here one- and two-byte encodings
\* (lead byte 0xC2..0xDF followed by one continuation byte 0x80..0xBF)
IsUtf8(w) ==
    \A k \in 1..Len(w) :
        \/ w[k] < 128
        \/ w[k] >= 194 /\ w[k] <= 223 /\ k < Len(w) /\ w[k+1] >= 128 /\ w[k+1] <= 191
        \/ w[k] >= 128 /\ w[k] <= 191 /\ k > 1 /\ w[k-1] >= 194 /\ w[k-1] <= 223

----------------------------------------------------------------------------
(* The Stemmer struct and its predicates.                                  *)

Stemmer(b, len, off) ==
    [bytes |-> b, bytes_length |-> len, offset |-> off, panicked |-> FALSE]

Panic(s) == [s EXCEPT !.panicked = TRUE]

\* self.bytes[i] is in range
InBounds(s, i) == i >= 0 /\ i < Len(s.bytes)

\* self.bytes[i]
Byte(s, i) == s.bytes[i + 1]

\* new that keeps the case of the first byte
new_keeps_case_of_first_byte(w) ==
    Stemmer([k \in 1..Len(w) |-> IF k = 1 THEN w[k] ELSE byte_to_ascii_lowercase(w[k])],
            Len(w), 0)

\* new without to_ascii_lowercase
new_keeps_case(w) == Stemmer(w, Len(w), 0)

\* Stemmer::new, the Ok branch
new(w) ==
    LET b == to_ascii_lowercase(w) IN Stemmer(b, Len(b), 0)

RECURSIVE is_consonant(_, _)
is_consonant(s, index) ==
    LET c == Byte(s, index) IN
    IF c \in {Code("a"), Code("e"), Code("i"), Code("o"), Code("u")} THEN FALSE
    ELSE IF c = Code("y")
         THEN IF index = 0 THEN TRUE ELSE ~is_consonant(s, index - 1)
         ELSE TRUE

\* the three loops of Stemmer::measure; phase 0 is the loop of lines 81-89,
\* phase 1 the loop of lines 92-100, phase 2 the loop of lines 103-111
RECURSIVE measure_loop(_, _, _, _)
measure_loop(s, phase, index, n) ==
    IF index >= s.offset THEN n
    ELSE IF phase = 0
         THEN IF ~is_consonant(s, index)
              THEN measure_loop(s, 1, index + 1, n)
              ELSE measure_loop(s, 0, index + 1, n)
    ELSE IF phase = 1
         THEN IF is_consonant(s, index)
              THEN measure_loop(s, 2, index + 1, n + 1)
              ELSE measure_loop(s, 1, index + 1, n)
    ELSE IF ~is_consonant(s, index)
         THEN measure_loop(s, 1, index + 1, n)
         ELSE measure_loop(s, 2, index + 1, n)

\* measure without the loop over the leading consonants
measure_counts_leading_consonants(s) == measure_loop(s, 1, 0, 0)

measure(s) == measure_loop(s, 0, 0, 0)

has_vowel(s) == \E index \in 0..(s.offset - 1) : ~is_consonant(s, index)

double_consonant(s, index) ==
    IF index < 1 \/ Byte(s, index) # Byte(s, index - 1)
    THEN FALSE
    ELSE is_consonant(s, index)

cvc(s, index) ==
    IF \/ index < 2
       \/ ~is_consonant(s, index)
       \/ is_consonant(s, index - 1)
       \/ ~is_consonant(s, index - 2)
    THEN FALSE
    ELSE Byte(s, index) \notin {Code("w"), Code("x"), Code("y")}

ends(s, str) ==
    IF Len(str) > s.bytes_length
    THEN FALSE
    ELSE SubSeq(s.bytes, s.bytes_length - Len(str) + 1, s.bytes_length) = str

\* update_offset that sets offset to the end of the word: the suffix is not
\* given up and a replacement is written after it
update_offset_to_end(s, str) ==
    IF s.bytes_length - Len(str) < 0
    THEN Panic(s)
    ELSE [s EXCEPT !.offset = s.bytes_length]

update_offset(s, str) ==
    IF s.bytes_length - Len(str) < 0
    THEN Panic(s)
    ELSE [s EXCEPT !.offset = s.bytes_length - Len(str)]

\* set_to that writes the bytes but leaves bytes_length as it was
set_to_keeps_length(s, str) ==
    IF s.panicked THEN s
    ELSE IF s.offset + Len(str) > Len(s.bytes)
    THEN Panic(s)
    ELSE [s EXCEPT
            !.bytes = [k \in 1..Len(s.bytes) |->
                          IF k > s.offset /\ k <= s.offset + Len(str)
                          THEN str[k - s.offset]
                          ELSE s.bytes[k]]]

set_to(s, str) ==
    IF s.panicked THEN s
    ELSE IF s.offset + Len(str) > Len(s.bytes)
    THEN Panic(s)
    ELSE [s EXCEPT
            !.bytes = [k \in 1..Len(s.bytes) |->
                          IF k > s.offset /\ k <= s.offset + Len(str)
                          THEN str[k - s.offset]
                          ELSE s.bytes[k]],
            !.bytes_length = s.offset + Len(str)]

replace(s, str) ==
    IF s.panicked THEN s
    ELSE IF measure(s) > 0 THEN set_to(s, str) ELSE s

\* update_offset(str) followed by replace(rep), the body of every rule of
\* steps 2 and 3
rule(s, str, rep) == replace(update_offset(s, str), rep)

----------------------------------------------------------------------------
(* The steps.  Each takes the Stemmer before the step and gives the        *)
(* Stemmer after it; a panicked Stemmer stays as it is.                    *)

\* the index of the first suffix of sufs that the word ends with, 0 if none:
\* the if / else-if chain of ends() tests inside one match arm
first_match(s, sufs) ==
    IF \E k \in 1..Len(sufs) : ends(s, sufs[k])
    THEN CHOOSE k \in 1..Len(sufs) :
            /\ ends(s, sufs[k])
            /\ \A j \in 1..(k - 1) : ~ends(s, sufs[j])
    ELSE 0

\* arm that goes on to the shorter suffixes of the branch when the measure
\* before the first one is 0
arm_tries_every_suffix(s, rules) ==
    LET hit(j) == ends(s, rules[j][1]) /\ measure(update_offset(s, rules[j][1])) > 0 IN
    IF \E j \in 1..Len(rules) : hit(j)
    THEN LET k == CHOOSE j \in 1..Len(rules) : hit(j) /\ \A i \in 1..(j - 1) : ~hit(i)
         IN rule(s, rules[k][1], rules[k][2])
    ELSE s

\* one match arm of step2 / step3: the first suffix of the arm that matches
\* is replaced (if measure > 0), nothing else is tried
arm(s, rules) ==
    LET k == first_match(s, [j \in 1..Len(rules) |-> rules[j][1]]) IN
    IF k = 0 THEN s ELSE rule(s, rules[k][1], rules[k][2])

\* step1a with -ies replaced by "ie"
step1a_ies_to_ie(s) ==
    IF s.panicked THEN s
    ELSE IF ~InBounds(s, s.bytes_length - 1) THEN Panic(s)
    ELSE IF Byte(s, s.bytes_length - 1) # Code("s") THEN s
    ELSE IF ends(s, W(<<"s","s","e","s">>))
         THEN LET t == update_offset(s, W(<<"s","s","e","s">>)) IN
              IF t.panicked THEN t ELSE [t EXCEPT !.bytes_length = @ - 2]
    ELSE IF ends(s, W(<<"i","e","s">>))
         THEN set_to(update_offset(s, W(<<"i","e","s">>)), W(<<"i","e">>))
    ELSE IF ~InBounds(s, s.bytes_length - 2) THEN Panic(s)
    ELSE IF Byte(s, s.bytes_length - 2) # Code("s")
         THEN [s EXCEPT !.bytes_length = @ - 1]
         ELSE s

\* step1a without the test of the second-to-last byte: a final s is dropped
\* after another s too
step1a_drops_every_s(s) ==
    IF s.panicked THEN s
    ELSE IF ~InBounds(s, s.bytes_length - 1) THEN Panic(s)
    ELSE IF Byte(s, s.bytes_length - 1) # Code("s") THEN s
    ELSE IF ends(s, W(<<"s","s","e","s">>))
         THEN LET t == update_offset(s, W(<<"s","s","e","s">>)) IN
              IF t.panicked THEN t ELSE [t EXCEPT !.bytes_length = @ - 2]
    ELSE IF ends(s, W(<<"i","e","s">>))
         THEN set_to(update_offset(s, W(<<"i","e","s">>)), W(<<"i">>))
    ELSE [s EXCEPT !.bytes_length = @ - 1]

\* lines 210-220 of step1ab: plurals
step1a(s) ==
    IF s.panicked THEN s
    ELSE IF ~InBounds(s, s.bytes_length - 1) THEN Panic(s)
    ELSE IF Byte(s, s.bytes_length - 1) # Code("s") THEN s
    ELSE IF ends(s, W(<<"s","s","e","s">>))
         THEN LET t == update_offset(s, W(<<"s","s","e","s">>)) IN
              IF t.panicked THEN t ELSE [t EXCEPT !.bytes_length = @ - 2]
    ELSE IF ends(s, W(<<"i","e","s">>))
         THEN set_to(update_offset(s, W(<<"i","e","s">>)), W(<<"i">>))
    ELSE IF ~InBounds(s, s.bytes_length - 2) THEN Panic(s)
    ELSE IF Byte(s, s.bytes_length - 2) # Code("s")
         THEN [s EXCEPT !.bytes_length = @ - 1]
         ELSE s

\* step1b_restore that removes one copy of every double consonant, of l, s
\* and z too
step1b_restore_undoubles_all(s) ==
    LET t == [s EXCEPT !.bytes_length = s.offset] IN
    IF ends(t, W(<<"a","t">>)) THEN set_to(update_offset(t, W(<<"a","t">>)), W(<<"a","t","e">>))
    ELSE IF ends(t, W(<<"b","l">>)) THEN set_to(update_offset(t, W(<<"b","l">>)), W(<<"b","l","e">>))
    ELSE IF ends(t, W(<<"i","z">>)) THEN set_to(update_offset(t, W(<<"i","z">>)), W(<<"i","z","e">>))
    ELSE IF t.bytes_length - 1 < 0 THEN Panic(t)
    ELSE IF double_consonant(t, t.bytes_length - 1)
         THEN [t EXCEPT !.bytes_length = @ - 1]
    ELSE IF measure(t) = 1 /\ cvc(t, t.bytes_length - 1)
         THEN set_to(t, W(<<"e">>))
         ELSE t

\* step1b_restore without the double-consonant rule
step1b_restore_keeps_double(s) ==
    LET t == [s EXCEPT !.bytes_length = s.offset] IN
    IF ends(t, W(<<"a","t">>)) THEN set_to(update_offset(t, W(<<"a","t">>)), W(<<"a","t","e">>))
    ELSE IF ends(t, W(<<"b","l">>)) THEN set_to(update_offset(t, W(<<"b","l">>)), W(<<"b","l","e">>))
    ELSE IF ends(t, W(<<"i","z">>)) THEN set_to(update_offset(t, W(<<"i","z">>)), W(<<"i","z","e">>))
    ELSE IF t.bytes_length - 1 < 0 THEN Panic(t)
    ELSE IF measure(t) = 1 /\ cvc(t, t.bytes_length - 1)
         THEN set_to(t, W(<<"e">>))
         ELSE t

\* lines 233-251 of step1ab: the suffix is dropped and the stem restored
step1b_restore(s) ==
    LET t == [s EXCEPT !.bytes_length = s.offset] IN
    IF ends(t, W(<<"a","t">>)) THEN set_to(update_offset(t, W(<<"a","t">>)), W(<<"a","t","e">>))
    ELSE IF ends(t, W(<<"b","l">>)) THEN set_to(update_offset(t, W(<<"b","l">>)), W(<<"b","l","e">>))
    ELSE IF ends(t, W(<<"i","z">>)) THEN set_to(update_offset(t, W(<<"i","z">>)), W(<<"i","z","e">>))
    ELSE IF t.bytes_length - 1 < 0 THEN Panic(t)
    ELSE IF double_consonant(t, t.bytes_length - 1)
         THEN LET u == [t EXCEPT !.bytes_length = @ - 1] IN
              IF ~InBounds(u, u.bytes_length - 1) THEN Panic(u)
              ELSE IF Byte(u, u.bytes_length - 1) \in {Code("l"), Code("s"), Code("z")}
                   THEN [u EXCEPT !.bytes_length = @ + 1]
                   ELSE u
    ELSE IF measure(t) = 1 /\ cvc(t, t.bytes_length - 1)
         THEN set_to(t, W(<<"e">>))
         ELSE t

\* step1b with the -ed / -ing test ahead of the -eed test
step1b_ed_first(s) ==
    IF s.panicked THEN s
    ELSE IF ends(s, W(<<"e","d">>)) \/ ends(s, W(<<"i","n","g">>))
         THEN LET t == IF ends(s, W(<<"e","d">>)) THEN update_offset(s, W(<<"e","d">>))
                       ELSE IF ends(s, W(<<"i","n","g">>)) THEN update_offset(s, W(<<"i","n","g">>))
                       ELSE s
              IN IF has_vowel(t) THEN step1b_restore(t) ELSE t
    ELSE IF ends(s, W(<<"e","e","d">>))
         THEN LET t == update_offset(s, W(<<"e","e","d">>)) IN
              IF measure(t) > 0 THEN [t EXCEPT !.bytes_length = @ - 1] ELSE t
    ELSE s

\* lines 221-253 of step1ab: -eed, -ed, -ing
step1b(s) ==
    IF s.panicked THEN s
    ELSE IF ends(s, W(<<"e","e","d">>))
         THEN LET t == update_offset(s, W(<<"e","e","d">>)) IN
              IF measure(t) > 0 THEN [t EXCEPT !.bytes_length = @ - 1] ELSE t
    ELSE IF ends(s, W(<<"e","d">>)) \/ ends(s, W(<<"i","n","g">>))
         THEN LET t == IF ends(s, W(<<"e","d">>)) THEN update_offset(s, W(<<"e","d">>))
                       ELSE IF ends(s, W(<<"i","n","g">>)) THEN update_offset(s, W(<<"i","n","g">>))
                       ELSE s
              IN IF has_vowel(t) THEN step1b_restore(t) ELSE t
    ELSE s

\* lines 209-254
step1ab(s) == step1b(step1a(s))

\* step1c without the has_vowel test: every final y becomes i
step1c_every_y(s) ==
    IF s.panicked THEN s
    ELSE IF ends(s, W(<<"y">>))
         THEN LET t == update_offset(s, W(<<"y">>)) IN
              IF ~InBounds(t, t.bytes_length - 1) THEN Panic(t)
              ELSE [t EXCEPT !.bytes[t.bytes_length] = Code("i")]
    ELSE s

step1c(s) ==
    IF s.panicked THEN s
    ELSE IF ends(s, W(<<"y">>))
         THEN LET t == update_offset(s, W(<<"y">>)) IN
              IF has_vowel(t)
              THEN IF ~InBounds(t, t.bytes_length - 1) THEN Panic(t)
                   ELSE [t EXCEPT !.bytes[t.bytes_length] = Code("i")]
              ELSE t
    ELSE s

step2(s) ==
    IF s.panicked THEN s
    ELSE IF ~InBounds(s, s.bytes_length - 2) THEN Panic(s)
    ELSE LET c == Byte(s, s.bytes_length - 2) IN
         CASE c = Code("a") -> arm(s, << <<W(<<"a","t","i","o","n","a","l">>), W(<<"a","t","e">>)>>, <<W(<<"t","i","o","n","a","l">>), W(<<"t","i","o","n">>)>> >>)
           [] c = Code("c") -> arm(s, << <<W(<<"e","n","c","i">>), W(<<"e","n","c","e">>)>>, <<W(<<"a","n","c","i">>), W(<<"a","n","c","e">>)>> >>)
           [] c = Code("e") -> arm(s, << <<W(<<"i","z","e","r">>), W(<<"i","z","e">>)>> >>)
           [] c = Code("l") -> arm(s, << <<W(<<"b","l","i">>), W(<<"b","l","e">>)>>, <<W(<<"a","l","l","i">>), W(<<"a","l">>)>>,
                                         <<W(<<"e","n","t","l","i">>), W(<<"e","n","t">>)>>, <<W(<<"e","l","i">>), W(<<"e">>)>>,
                                         <<W(<<"o","u","s","l","i">>), W(<<"o","u","s">>)>> >>)
           [] c = Code("o") -> arm(s, << <<W(<<"i","z","a","t","i","o","n">>), W(<<"i","z","e">>)>>, <<W(<<"a","t","i","o","n">>), W(<<"a","t","e">>)>>,
                                         <<W(<<"a","t","o","r">>), W(<<"a","t","e">>)>> >>)
           [] c = Code("s") -> arm(s, << <<W(<<"a","l","i","s","m">>), W(<<"a","l">>)>>, <<W(<<"i","v","e","n","e","s","s">>), W(<<"i","v","e">>)>>,
                                         <<W(<<"f","u","l","n","e","s","s">>), W(<<"f","u","l">>)>>, <<W(<<"o","u","s","n","e","s","s">>), W(<<"o","u","s">>)>> >>)
           [] c = Code("t") -> arm(s, << <<W(<<"a","l","i","t","i">>), W(<<"a","l">>)>>, <<W(<<"i","v","i","t","i">>), W(<<"i","v","e">>)>>,
                                         <<W(<<"b","i","l","i","t","i">>), W(<<"b","l","e">>)>> >>)
           [] c = Code("g") -> arm(s, << <<W(<<"l","o","g","i">>), W(<<"l","o","g">>)>> >>)
           [] OTHER -> s

step3(s) ==
    IF s.panicked THEN s
    ELSE IF ~InBounds(s, s.bytes_length - 1) THEN Panic(s)
    ELSE LET c == Byte(s, s.bytes_length - 1) IN
         CASE c = Code("e") -> arm(s, << <<W(<<"i","c","a","t","e">>), W(<<"i","c">>)>>, <<W(<<"a","t","i","v","e">>), <<>> >>,
                                         <<W(<<"a","l","i","z","e">>), W(<<"a","l">>)>> >>)
           [] c = Code("i") -> arm(s, << <<W(<<"i","c","i","t","i">>), W(<<"i","c">>)>> >>)
           [] c = Code("l") -> arm(s, << <<W(<<"i","c","a","l">>), W(<<"i","c">>)>>, <<W(<<"f","u","l">>), <<>> >> >>)
           [] c = Code("s") -> arm(s, << <<W(<<"n","e","s","s">>), <<>> >> >>)
           [] OTHER -> s

\* one match arm of step4: update_offset for the first suffix that matches,
\* and whether byte_was_matched is set
arm4(s, sufs) ==
    LET k == first_match(s, sufs) IN
    IF k = 0 THEN [s |-> s, byte_was_matched |-> FALSE]
    ELSE [s |-> update_offset(s, sufs[k]), byte_was_matched |-> TRUE]

\* arm4_o without the test of the byte before -ion
arm4_o_any_ion(s) ==
    IF ends(s, W(<<"i","o","n">>))
    THEN [s |-> update_offset(s, W(<<"i","o","n">>)), byte_was_matched |-> TRUE]
    ELSE arm4(s, <<W(<<"o","u">>)>>)

\* the b'o' arm of step4: -ion needs s or t before it
arm4_o(s) ==
    IF ends(s, W(<<"i","o","n">>))
    THEN LET t == update_offset(s, W(<<"i","o","n">>)) IN
         [s |-> t,
          byte_was_matched |->
              /\ t.offset > 0
              /\ Byte(t, t.offset - 1) \in {Code("s"), Code("t")}]
    ELSE arm4(s, <<W(<<"o","u">>)>>)

\* lines 411-509 of step4: the match on the second-to-last byte;
\* returned is TRUE for the arm `_ => return`
step4_match(s) ==
    LET c == Byte(s, s.bytes_length - 2)
        go(r) == [s |-> r.s, byte_was_matched |-> r.byte_was_matched, returned |-> FALSE]
    IN
    CASE c = Code("a") -> go(arm4(s, <<W(<<"a","l">>)>>))
      [] c = Code("c") -> go(arm4(s, <<W(<<"a","n","c","e">>), W(<<"e","n","c","e">>)>>))
      [] c = Code("e") -> go(arm4(s, <<W(<<"e","r">>)>>))
      [] c = Code("i") -> go(arm4(s, <<W(<<"i","c">>)>>))
      [] c = Code("l") -> go(arm4(s, <<W(<<"a","b","l","e">>), W(<<"i","b","l","e">>)>>))
      [] c = Code("n") -> go(arm4(s, <<W(<<"a","n","t">>), W(<<"e","m","e","n","t">>), W(<<"m","e","n","t">>), W(<<"e","n","t">>)>>))
      [] c = Code("o") -> go(arm4_o(s))
      [] c = Code("s") -> go(arm4(s, <<W(<<"i","s","m">>)>>))
      [] c = Code("t") -> go(arm4(s, <<W(<<"a","t","e">>), W(<<"i","t","i">>)>>))
      [] c = Code("u") -> go(arm4(s, <<W(<<"o","u","s">>)>>))
      [] c = Code("v") -> go(arm4(s, <<W(<<"i","v","e">>)>>))
      [] c = Code("z") -> go(arm4(s, <<W(<<"i","z","e">>)>>))
      [] OTHER -> [s |-> s, byte_was_matched |-> FALSE, returned |-> TRUE]

step4(s) ==
    IF s.panicked THEN s
    ELSE IF ~InBounds(s, s.bytes_length - 2) THEN Panic(s)
    ELSE LET m == step4_match(s) IN
         IF m.returned THEN m.s
         ELSE IF m.byte_was_matched /\ measure(m.s) > 1
              THEN [m.s EXCEPT !.bytes_length = m.s.offset]
              ELSE m.s

\* step5_e that removes the final e whenever the measure is 1, also after a
\* consonant-vowel-consonant
step5_e_ignores_cvc(s) ==
    LET t == [s EXCEPT !.offset = s.bytes_length] IN
    IF ~InBounds(t, t.bytes_length - 1) THEN Panic(t)
    ELSE IF Byte(t, t.bytes_length - 1) = Code("e") /\ measure(t) >= 1
         THEN [t EXCEPT !.bytes_length = @ - 1]
         ELSE t

\* step5_e without the removal of the final e
step5_e_keeps_e(s) == [s EXCEPT !.offset = s.bytes_length]

\* lines 518-524 of step5: the final e
step5_e(s) ==
    LET t == [s EXCEPT !.offset = s.bytes_length] IN
    IF ~InBounds(t, t.bytes_length - 1) THEN Panic(t)
    ELSE IF Byte(t, t.bytes_length - 1) = Code("e")
         THEN LET a == measure(t) IN
              IF a > 1 THEN [t EXCEPT !.bytes_length = @ - 1]
              ELSE IF a = 1
                   THEN IF t.bytes_length - 2 < 0 THEN Panic(t)
                        ELSE IF ~cvc(t, t.bytes_length - 2)
                             THEN [t EXCEPT !.bytes_length = @ - 1]
                             ELSE t
                   ELSE t
         ELSE t

\* step5_ll that collapses the ll when the measure is 1 too
step5_ll_measure_above_0(s) ==
    IF s.panicked THEN s
    ELSE IF ~InBounds(s, s.bytes_length - 1) THEN Panic(s)
    ELSE IF /\ Byte(s, s.bytes_length - 1) = Code("l")
            /\ double_consonant(s, s.bytes_length - 1)
            /\ measure(s) > 0
         THEN [s EXCEPT !.bytes_length = @ - 1]
         ELSE s

\* step5_ll that drops both l
step5_ll_drops_both(s) ==
    IF s.panicked THEN s
    ELSE IF ~InBounds(s, s.bytes_length - 1) THEN Panic(s)
    ELSE IF /\ Byte(s, s.bytes_length - 1) = Code("l")
            /\ double_consonant(s, s.bytes_length - 1)
            /\ measure(s) > 1
         THEN [s EXCEPT !.bytes_length = @ - 2]
         ELSE s

\* lines 525-527 of step5: the final ll
step5_ll(s) ==
    IF s.panicked THEN s
    ELSE IF ~InBounds(s, s.bytes_length - 1) THEN Panic(s)
    ELSE IF /\ Byte(s, s.bytes_length - 1) = Code("l")
            /\ double_consonant(s, s.bytes_length - 1)
            /\ measure(s) > 1
         THEN [s EXCEPT !.bytes_length = @ - 1]
         ELSE s

step5(s) == IF s.panicked THEN s ELSE step5_ll(step5_e(s))

\* Stemmer::get: the bytes [0, bytes_length) as a String
get_string(s) == SubSeq(s.bytes, 1, s.bytes_length)

----------------------------------------------------------------------------
(* The words stem::get is called with.                                     *)

\* longest word over Sigma that is tried
MaxLen == 3

\* how many times stem::get is applied in a row (to its own result)
MaxCalls == 2

\* bytes of the exhaustively tried words: lower-case vowels and consonants,
\* y, an upper-case letter, the bytes just below b'A' and just above b'Z',
\* and the two bytes of U+00E9
Sigma == {Code("a"), Code("e"), Code("i"), Code("y"), Code("s"), Code("d"),
          Code("E"), 64, 195, 169}

\* every &str of at most MaxLen bytes over Sigma
ShortWords ==
    {w \in UNION {[1..n -> Sigma] : n \in 0..MaxLen} : IsUtf8(w)}

\* the words of the doc comment of step1ab and of the doc example of Stemmer
LiteralWords ==
    {W(<<"p","e","n","c","i","l","s">>), W(<<"c","a","r","e","s","s","e","s">>), W(<<"p","o","n","i","e","s">>), W(<<"t","i","e","s">>), W(<<"c","a","t","s">>), W(<<"f","e","e","d">>), W(<<"a","g","r","e","e","d">>),
     W(<<"d","i","s","a","b","l","e","d">>), W(<<"m","a","t","t","i","n","g">>), W(<<"m","a","t","i","n","g">>), W(<<"m","e","e","t","i","n","g">>), W(<<"m","i","l","l","i","n","g">>), W(<<"m","e","s","s","i","n","g">>),
     W(<<"m","e","e","t","i","n","g","s">>)}

Stems ==
    {W(<<"i">>), W(<<"t","r">>), W(<<"a","g","r">>), W(<<"a","b","l">>), W(<<"h","o","p">>), W(<<"f","a","l","l">>), W(<<"r","e","l">>), W(<<"g","e","n","e","r">>), W(<<"f","i","z","z">>), W(<<"d","e","c","i">>),
     W(<<"a","d","o","p","t">>), W(<<"c","o","n","t">>), W(<<"y">>), W(<<"S","e","n","s">>)}

Suffixes ==
    {W(<<"s">>), W(<<"s","s","e","s">>), W(<<"i","e","s">>), W(<<"e","e","d">>), W(<<"e","d">>), W(<<"i","n","g">>), W(<<"y">>), W(<<"a","t","i","o","n","a","l">>), W(<<"t","i","o","n","a","l">>),
     W(<<"i","z","e","r">>), W(<<"b","l","i">>), W(<<"e","n","t","l","i">>), W(<<"i","z","a","t","i","o","n">>), W(<<"a","t","i","o","n">>), W(<<"f","u","l","n","e","s","s">>), W(<<"i","v","i","t","i">>), W(<<"l","o","g","i">>),
     W(<<"i","c","a","t","e">>), W(<<"a","t","i","v","e">>), W(<<"i","c","a","l">>), W(<<"n","e","s","s">>), W(<<"a","l">>), W(<<"e","n","c","e">>), W(<<"a","b","l","e">>), W(<<"e","m","e","n","t">>), W(<<"m","e","n","t">>),
     W(<<"i","o","n">>), W(<<"o","u","s">>), W(<<"i","v","e">>), W(<<"i","z","e">>), W(<<"e">>), W(<<"l","l">>), W(<<"a","t","e","d">>), W(<<"i","z","i","n","g">>), W(<<"b","l","i","n","g">>),
     W(<<"e","l","l","e">>)}

\* stems followed by the suffixes the steps look for
SuffixedWords == {p \o s : p \in Stems, s \in Suffixes}

\* a word of the sample lexicon, stored there with the stem "betrai"
SampleWords == {W(<<"b","e","t","r","a","y","e","d">>)}

Inputs == ShortWords \cup LiteralWords \cup SuffixedWords \cup SampleWords

----------------------------------------------------------------------------
(* stem::get as a state machine: pc is the position inside get.            *)

NoResult == [kind |-> "none", err |-> "", val |-> <<>>]
Ok(v) == [kind |-> "Ok", err |-> "", val |-> v]
Err(e) == [kind |-> "Err", err |-> e, val |-> <<>>]
Panicked == [kind |-> "panic", err |-> "", val |-> <<>>]

\* no call made
NoCall == [fn |-> "none"]

\* no term frequency builder is running
TokenIdle == tf_call = NoCall /\ tf_ret = NoResult

\* no SentimentModel has been constructed
SentimentIdle ==
    /\ custom_words = <<>>
    /\ custom_stems = <<>>
    /\ s_call = NoCall
    /\ s_ret = NoResult
    /\ s_ops = 0

\* no TfidfMatrix has been constructed
LsaIdle ==
    /\ tfidf_matrix = [nrows |-> 0, ncols |-> 0]
    /\ lsa_k = 0
    /\ lsa_ret = NoResult

\* no call of stem::get is running as a step of its own
StemIdle ==
    /\ word = <<>>
    /\ orig = <<>>
    /\ calls = 0
    /\ bytes = <<>>
    /\ bytes_length = 0
    /\ offset = 0
    /\ pc = "idle"
    /\ result = NoResult

\* the Stemmer held in the variables
self == [bytes |-> bytes, bytes_length |-> bytes_length, offset |-> offset,
         panicked |-> FALSE]

\* the Stemmer t becomes the state; a panic unwinds out of get
Store(t, next) ==
    /\ bytes' = t.bytes
    /\ bytes_length' = t.bytes_length
    /\ offset' = t.offset
    /\ IF t.panicked
       THEN pc' = "done" /\ result' = Panicked
       ELSE pc' = next /\ result' = result
    /\ UNCHANGED <<word, orig, calls>>
    /\ UNCHANGED <<tokenVars, sentimentVars, lsaVars>>

Init ==
    /\ word \in Inputs
    /\ orig = word
    /\ calls = 1
    /\ bytes = <<>>
    /\ bytes_length = 0
    /\ offset = 0
    /\ pc = "call"
    /\ result = NoResult
    /\ TokenIdle
    /\ SentimentIdle
    /\ LsaIdle

\* runs_pipeline with the bound off by one: two-byte words are stemmed too
runs_pipeline_from_two(w) == Len(w) > 1

\* line 537: words of more than two bytes go through the steps
runs_pipeline(w) == Len(w) > 2

\* lines 537-538 and 546-548: the length test and Stemmer::new
Call ==
    /\ pc = "call"
    /\ IF runs_pipeline(word)
       THEN IF ~is_ascii(word)
            THEN /\ result' = Err("StemNonAscii")
                 /\ pc' = "done"
                 /\ UNCHANGED <<bytes, bytes_length, offset>>
            ELSE /\ bytes' = new(word).bytes
                 /\ bytes_length' = new(word).bytes_length
                 /\ offset' = new(word).offset
                 /\ pc' = "step1ab"
                 /\ result' = result
       ELSE /\ result' = Ok(word)
            /\ pc' = "done"
            /\ UNCHANGED <<bytes, bytes_length, offset>>
    /\ UNCHANGED <<word, orig, calls>>
    /\ UNCHANGED <<tokenVars, sentimentVars, lsaVars>>

Step1ab == pc = "step1ab" /\ Store(step1ab(self), "step1c")

Step1c == pc = "step1c" /\ Store(step1c(self), "step2")

Step2 == pc = "step2" /\ Store(step2(self), "step3")

Step3 == pc = "step3" /\ Store(step3(self), "step4")

Step4 == pc = "step4" /\ Store(step4(self), "step5")

Step5 == pc = "step5" /\ Store(step5(self), "get")

\* line 545: Ok(mw.get())
Return ==
    /\ pc = "get"
    /\ result' = Ok(get_string(self))
    /\ pc' = "done"
    /\ UNCHANGED <<word, bytes, bytes_length, offset, orig, calls>>
    /\ UNCHANGED <<tokenVars, sentimentVars, lsaVars>>

\* the caller stems the stem it got: stem::get(&stem::get(w)?)
Restem ==
    /\ pc = "done"
    /\ result.kind = "Ok"
    /\ calls < MaxCalls
    /\ word' = result.val
    /\ calls' = calls + 1
    /\ bytes' = <<>>
    /\ bytes_length' = 0
    /\ offset' = 0
    /\ pc' = "call"
    /\ result' = NoResult
    /\ UNCHANGED orig
    /\ UNCHANGED <<tokenVars, sentimentVars, lsaVars>>

Next ==
    \/ Call
    \/ Step1ab
    \/ Step1c
    \/ Step2
    \/ Step3
    \/ Step4
    \/ Step5
    \/ Return
    \/ Restem

Spec == Init /\ [][Next]_vars

----------------------------------------------------------------------------
(* stem::get as a function, for the callers in token.rs and sentiment.rs.  *)

\* lines 539-544: the n-th of the six steps
nth_step(s, n) ==
    CASE n = 1 -> step1ab(s)
      [] n = 2 -> step1c(s)
      [] n = 3 -> step2(s)
      [] n = 4 -> step3(s)
      [] n = 5 -> step4(s)
      [] OTHER -> step5(s)

\* lines 539-544 from the n-th step on; a panic ends them
RECURSIVE run_steps(_, _)
run_steps(s, n) ==
    IF s.panicked \/ n > 6 THEN s ELSE run_steps(nth_step(s, n), n + 1)

\* lines 536-549: Ok(stem), Err(StemNonAscii), or a panic
get(w) ==
    IF runs_pipeline(w)
    THEN IF ~is_ascii(w)
         THEN Err("StemNonAscii")
         ELSE LET mw == run_steps(new(w), 1) IN
              IF mw.panicked THEN Panicked ELSE Ok(get_string(mw))
    ELSE Ok(w)

----------------------------------------------------------------------------
(* The term frequency builders of token.rs.  A BTreeMap<String, f64> is a   *)
(* function from its keys to its counts.                                    *)

\* line 70: the characters of the regex [!"\#$%&'()*+,-./:;<=>?@\[\]^_`{|}~]
punctuation ==
    (33..47) \cup (58..64) \cup {91, 93, 94, 95, 96} \cup (123..126)

\* not a character that the regex removes
is_not_punctuation(b) == b \notin punctuation

\* line 71: punctuation.replace_all(sentence, "")
remove_punctuation(sentence) == SelectSeq(sentence, is_not_punctuation)

\* the position of the first b' ' of s, 0 when there is none
RECURSIVE find_space(_, _)
find_space(s, i) ==
    IF i > Len(s) THEN 0
    ELSE IF s[i] = 32 THEN i
    ELSE find_space(s, i + 1)

\* line 73: split(' '), which keeps the empty pieces
RECURSIVE split(_)
split(s) ==
    LET i == find_space(s, 1) IN
    IF i = 0 THEN <<s>>
    ELSE <<SubSeq(s, 1, i - 1)>> \o split(SubSeq(s, i + 1, Len(s)))

\* the ASCII characters with the White_Space property
is_whitespace(b) == b \in (9..13) \cup {32}

RECURSIVE trim_start(_)
trim_start(s) ==
    IF s # <<>> /\ is_whitespace(Head(s)) THEN trim_start(Tail(s)) ELSE s

RECURSIVE trim_end(_)
trim_end(s) ==
    IF s # <<>> /\ is_whitespace(s[Len(s)])
    THEN trim_end(SubSeq(s, 1, Len(s) - 1))
    ELSE s

\* line 73: str::trim
trim(s) == trim_end(trim_start(s))

\* line 74: the token is kept
is_not_empty(token) == token # <<>>

\* lines 69-76
tokenize_sentence(sentence) ==
    LET pieces == split(remove_punctuation(sentence)) IN
    SelectSeq([i \in 1..Len(pieces) |-> trim(pieces[i])], is_not_empty)

\* BTreeMap::new()
EmptyMap == [t \in {} |-> 0]

\* lines 207-208: *word_counts.entry(key).or_insert(0.) += 1.
count_entry(word_counts, key) ==
    [t \in DOMAIN word_counts \cup {key} |->
        IF t = key
        THEN (IF key \in DOMAIN word_counts THEN word_counts[key] ELSE 0) + 1
        ELSE word_counts[t]]

\* lines 205-210, from the token at position i on
RECURSIVE word_vector_loop(_, _, _)
word_vector_loop(word_tokens, i, word_counts) ==
    IF i > Len(word_tokens) THEN Ok(word_counts)
    ELSE word_vector_loop(word_tokens, i + 1,
                          count_entry(word_counts, word_tokens[i]))

\* lines 204-211
get_term_frequencies_from_word_vector(word_tokens) ==
    word_vector_loop(word_tokens, 1, EmptyMap)

\* lines 230-235, from the token at position i on
RECURSIVE word_vector_without_stop_words_loop(_, _, _, _)
word_vector_without_stop_words_loop(word_tokens, stop_words, i, word_counts) ==
    IF i > Len(word_tokens) THEN Ok(word_counts)
    ELSE word_vector_without_stop_words_loop(word_tokens, stop_words, i + 1,
             IF word_tokens[i] \notin stop_words
             THEN count_entry(word_counts, word_tokens[i])
             ELSE word_counts)

\* lines 228-237
get_term_frequencies_from_word_vector_without_stop_words(word_tokens, stop_words) ==
    word_vector_without_stop_words_loop(word_tokens, stop_words, 1, EmptyMap)

\* line 258: stem::get(word).unwrap_or_else(|_| word.to_string())
unwrap_or_word(r, w) == IF r.kind = "Ok" THEN r.val ELSE w

\* lines 257-260, from the token at position i on; a panic of stem::get
\* unwinds out of the loop
RECURSIVE stemmed_loop(_, _, _)
stemmed_loop(word_tokens, i, word_counts) ==
    IF i > Len(word_tokens) THEN Ok(word_counts)
    ELSE LET r == get(word_tokens[i]) IN
         IF r.kind = "panic" THEN Panicked
         ELSE stemmed_loop(word_tokens, i + 1,
                  count_entry(word_counts, unwrap_or_word(r, word_tokens[i])))

\* lines 255-262
get_stemmed_term_frequencies_from_word_vector(word_tokens) ==
    stemmed_loop(word_tokens, 1, EmptyMap)

\* lines 283-288, from the token at position i on
RECURSIVE stemmed_without_stop_words_loop(_, _, _, _)
stemmed_without_stop_words_loop(word_tokens, stop_words, i, word_counts) ==
    IF i > Len(word_tokens) THEN Ok(word_counts)
    ELSE IF word_tokens[i] \in stop_words
    THEN stemmed_without_stop_words_loop(word_tokens, stop_words, i + 1,
                                         word_counts)
    ELSE LET r == get(word_tokens[i]) IN
         IF r.kind = "panic" THEN Panicked
         ELSE stemmed_without_stop_words_loop(word_tokens, stop_words, i + 1,
                  count_entry(word_counts, unwrap_or_word(r, word_tokens[i])))

\* lines 281-290
get_stemmed_term_frequencies_from_word_vector_without_stop_words(word_tokens, stop_words) ==
    stemmed_without_stop_words_loop(word_tokens, stop_words, 1, EmptyMap)

\* lines 336-340
get_term_frequencies_from_sentence(sentence) ==
    get_term_frequencies_from_word_vector(tokenize_sentence(sentence))

\* lines 357-361
get_term_frequencies_from_sentence_without_stop_words(sentence, stop_words) ==
    get_term_frequencies_from_word_vector_without_stop_words(
        tokenize_sentence(sentence), stop_words)

\* lines 377-381
get_stemmed_term_frequencies_from_sentence(sentence) ==
    get_stemmed_term_frequencies_from_word_vector(tokenize_sentence(sentence))

\* lines 398-402
get_stemmed_term_frequencies_from_sentence_without_stop_words(sentence, stop_words) ==
    get_stemmed_term_frequencies_from_word_vector_without_stop_words(
        tokenize_sentence(sentence), stop_words)

\* total_terms with the keys of the first sentence only
total_terms_of_first_sentence(term_frequencies) ==
    IF term_frequencies = <<>> THEN {} ELSE DOMAIN term_frequencies[1]

\* lines 460, 463: the keys of every sentence's map (the Vec may hold a key
\* more than once; the loop of lines 467-471 only tests membership)
total_terms(term_frequencies) ==
    UNION {DOMAIN term_frequencies[i] : i \in 1..Len(term_frequencies)}

\* lines 467-471: a map gets 0. for every term it does not have
insert_missing_terms(frequency_counts, terms) ==
    [t \in DOMAIN frequency_counts \cup terms |->
        IF t \in DOMAIN frequency_counts THEN frequency_counts[t] ELSE 0]

\* lines 460-473 once every sentence has its map r[i]; a panic inside the
\* closure of line 461 unwinds out of the function
pad_term_frequencies(r) ==
    IF \E i \in 1..Len(r) : r[i].kind = "panic" THEN Panicked
    ELSE LET term_frequencies == [i \in 1..Len(r) |-> r[i].val] IN
         Ok([i \in 1..Len(r) |->
                insert_missing_terms(term_frequencies[i],
                                     total_terms(term_frequencies))])

\* lines 459-474
get_term_frequencies_from_sentences(sentences) ==
    pad_term_frequencies([i \in 1..Len(sentences) |->
        get_term_frequencies_from_sentence(sentences[i])])

\* lines 502-517
get_term_frequencies_from_sentences_without_stop_words(sentences, stop_words) ==
    pad_term_frequencies([i \in 1..Len(sentences) |->
        get_term_frequencies_from_sentence_without_stop_words(sentences[i],
                                                              stop_words)])

\* lines 544-559
get_stemmed_term_frequencies_from_sentences(sentences) ==
    pad_term_frequencies([i \in 1..Len(sentences) |->
        get_stemmed_term_frequencies_from_sentence(sentences[i])])

\* lines 588-603
get_stemmed_term_frequencies_from_sentences_without_stop_words(sentences, stop_words) ==
    pad_term_frequencies([i \in 1..Len(sentences) |->
        get_stemmed_term_frequencies_from_sentence_without_stop_words(
            sentences[i], stop_words)])

----------------------------------------------------------------------------
(* The calls of the term frequency builders.                               *)

\* most tokens in a word vector
MaxTokens == 3

\* most words in the sentences of a list, all together
MaxWords == 2

\* most sentences in a list
MaxSentences == 2

\* the bytes of "hopè" (the è is 0xC3 0xA8)
Hope == W(<<"h","o","p">>) \o <<195, 168>>

\* tokens: a plural and its stem, a word that step2 panics on, a long and a
\* short word that are not ASCII, an upper-case word
TokenWords == {W(<<"c","a","t","s">>), W(<<"c","a","t">>), W(<<"i","e","s">>), Hope, <<195, 169>>, W(<<"T","h","e">>)}

\* every Vec<&str> of at most MaxTokens tokens
WordVectors == UNION {[1..n -> TokenWords] : n \in 0..MaxTokens}

\* the stop_words arguments
StopWordLists == {{W(<<"c","a","t">>)}, {W(<<"i","e","s">>), W(<<"T","h","e">>)}}

\* the words of the sentences
SentenceWords == {W(<<"c","a","t","s">>), W(<<"c","a","t">>), W(<<"i","e","s">>)}

\* a word and a blank, or a word, a full stop and a tab
Pieces == {w \o <<32>> : w \in SentenceWords} \cup {W(<<"c","a","t">>) \o <<46, 9>>}

\* the pieces p[1] .. p[n] in a row
RECURSIVE Concat(_)
Concat(p) == IF p = <<>> THEN <<>> ELSE Head(p) \o Concat(Tail(p))

\* a sentence as the sequence of its pieces
PieceSeqs == UNION {[1..n -> Pieces] : n \in 0..MaxWords}

\* the number of pieces of the sentences of l
RECURSIVE WordCount(_)
WordCount(l) == IF l = <<>> THEN 0 ELSE Len(Head(l)) + WordCount(Tail(l))

\* every &[&str] of at most MaxSentences sentences and MaxWords words
SentenceLists ==
    {[i \in DOMAIN l |-> Concat(l[i])] :
        l \in {l \in UNION {[1..n -> PieceSeqs] : n \in 0..MaxSentences} :
                  WordCount(l) <= MaxWords}}

\* the builders that stem
StemmedBuilders ==
    {"get_stemmed_term_frequencies_from_word_vector",
     "get_stemmed_term_frequencies_from_word_vector_without_stop_words",
     "get_stemmed_term_frequencies_from_sentences",
     "get_stemmed_term_frequencies_from_sentences_without_stop_words"}

\* the builders that take a list of sentences
SentencesBuilders ==
    {"get_term_frequencies_from_sentences",
     "get_term_frequencies_from_sentences_without_stop_words",
     "get_stemmed_term_frequencies_from_sentences",
     "get_stemmed_term_frequencies_from_sentences_without_stop_words"}

\* a call and its arguments (stop_words is {} for a builder without it)
TokenCall(fn, input, stop_words) ==
    [fn |-> fn, input |-> input, stop_words |-> stop_words]

\* the call fn(input, stop_words) is made and returns r
ReturnFrom(fn, input, stop_words, r) ==
    /\ tf_call' = TokenCall(fn, input, stop_words)
    /\ tf_ret' = r
    /\ UNCHANGED <<stemVars, sentimentVars, lsaVars>>

GetTermFrequenciesFromWordVector ==
    /\ tf_call = NoCall
    /\ \E word_tokens \in WordVectors :
           ReturnFrom("get_term_frequencies_from_word_vector", word_tokens, {},
                      get_term_frequencies_from_word_vector(word_tokens))

GetTermFrequenciesFromWordVectorWithoutStopWords ==
    /\ tf_call = NoCall
    /\ \E word_tokens \in WordVectors, stop_words \in StopWordLists :
           ReturnFrom("get_term_frequencies_from_word_vector_without_stop_words",
                      word_tokens, stop_words,
                      get_term_frequencies_from_word_vector_without_stop_words(
                          word_tokens, stop_words))

GetStemmedTermFrequenciesFromWordVector ==
    /\ tf_call = NoCall
    /\ \E word_tokens \in WordVectors :
           ReturnFrom("get_stemmed_term_frequencies_from_word_vector",
                      word_tokens, {},
                      get_stemmed_term_frequencies_from_word_vector(word_tokens))

GetStemmedTermFrequenciesFromWordVectorWithoutStopWords ==
    /\ tf_call = NoCall
    /\ \E word_tokens \in WordVectors, stop_words \in StopWordLists :
           ReturnFrom(
               "get_stemmed_term_frequencies_from_word_vector_without_stop_words",
               word_tokens, stop_words,
               get_stemmed_term_frequencies_from_word_vector_without_stop_words(
                   word_tokens, stop_words))

GetTermFrequenciesFromSentences ==
    /\ tf_call = NoCall
    /\ \E sentences \in SentenceLists :
           ReturnFrom("get_term_frequencies_from_sentences", sentences, {},
                      get_term_frequencies_from_sentences(sentences))

GetTermFrequenciesFromSentencesWithoutStopWords ==
    /\ tf_call = NoCall
    /\ \E sentences \in SentenceLists, stop_words \in StopWordLists :
           ReturnFrom("get_term_frequencies_from_sentences_without_stop_words",
                      sentences, stop_words,
                      get_term_frequencies_from_sentences_without_stop_words(
                          sentences, stop_words))

GetStemmedTermFrequenciesFromSentences ==
    /\ tf_call = NoCall
    /\ \E sentences \in SentenceLists :
           ReturnFrom("get_stemmed_term_frequencies_from_sentences",
                      sentences, {},
                      get_stemmed_term_frequencies_from_sentences(sentences))

GetStemmedTermFrequenciesFromSentencesWithoutStopWords ==
    /\ tf_call = NoCall
    /\ \E sentences \in SentenceLists, stop_words \in StopWordLists :
           ReturnFrom(
               "get_stemmed_term_frequencies_from_sentences_without_stop_words",
               sentences, stop_words,
               get_stemmed_term_frequencies_from_sentences_without_stop_words(
                   sentences, stop_words))

InitToken == StemIdle /\ TokenIdle /\ SentimentIdle /\ LsaIdle

NextToken ==
    \/ GetTermFrequenciesFromWordVector
    \/ GetTermFrequenciesFromWordVectorWithoutStopWords
    \/ GetStemmedTermFrequenciesFromWordVector
    \/ GetStemmedTermFrequenciesFromWordVectorWithoutStopWords
    \/ GetTermFrequenciesFromSentences
    \/ GetTermFrequenciesFromSentencesWithoutStopWords
    \/ GetStemmedTermFrequenciesFromSentences
    \/ GetStemmedTermFrequenciesFromSentencesWithoutStopWords

SpecToken == InitToken /\ [][NextToken]_vars

----------------------------------------------------------------------------
(* The lexicons of sentiment.rs.  custom_words and custom_stems are         *)
(* functions from their keys to SentimentDictValue records; avg[0] and      *)
(* avg[1] of the source are avg[1] and avg[2] here.                         *)

\* lines 28-35
SentimentDictValue(w, st, avg, std) ==
    [word |-> w, stem |-> st, avg |-> avg, std |-> std]

\* lines 72-73: the stem lexicon of a new model has the key ""
new_custom_stems ==
    <<>> :> SentimentDictValue(<<>>, <<>>, <<0, 0>>, <<0, 0>>)

\* does_term_exist that looks into custom_words only
does_term_exist_in_words(term) == term \in DOMAIN custom_words

\* lines 151-153
does_term_exist(term) ==
    term \in DOMAIN custom_words \/ term \in DOMAIN custom_stems

\* lines 183-199: [average, std_dev] of the arousal
get_raw_arousal(term) ==
    IF ~does_term_exist(term) THEN <<0, 0>>
    ELSE IF term \in DOMAIN custom_words
    THEN <<custom_words[term].avg[2], custom_words[term].std[2]>>
    ELSE IF term \in DOMAIN custom_stems
    THEN <<custom_stems[term].avg[2], custom_stems[term].std[2]>>
    ELSE <<0, 0>>

\* lines 229-245: [average, std_dev] of the valence
get_raw_valence(term) ==
    IF ~does_term_exist(term) THEN <<0, 0>>
    ELSE IF term \in DOMAIN custom_words
    THEN <<custom_words[term].avg[1], custom_words[term].std[1]>>
    ELSE IF term \in DOMAIN custom_stems
    THEN <<custom_stems[term].avg[1], custom_stems[term].std[1]>>
    ELSE <<0, 0>>

\* lines 275-277
get_arousal_for_single_term(term) == get_raw_arousal(term)[1]

\* lines 307-309
get_valence_for_single_term(term) == get_raw_valence(term)[1]

\* lines 458-464
get_sentiment_for_term(term) ==
    [valence |-> get_valence_for_single_term(term),
     arousal |-> get_arousal_for_single_term(term)]

\* HashMap::insert
insert(map, key, value) ==
    [t \in DOMAIN map \cup {key} |-> IF t = key THEN value ELSE map[t]]

\* replace_avg with valence and arousal the other way round
replace_avg_swapped(dict_value, valence, arousal) ==
    [dict_value EXCEPT !.avg = <<arousal, valence>>]

\* lines 804-805 and 808-809: avg[0] = valence; avg[1] = arousal
replace_avg(dict_value, valence, arousal) ==
    [dict_value EXCEPT !.avg = <<valence, arousal>>]

\* the model after a call and what the call returned
Returned(words, stems, r) ==
    [custom_words |-> words, custom_stems |-> stems, ret |-> r]

\* lines 733-752 and 811-830: stem the term (? returns its error), then an
\* entry with the key term in each lexicon
insert_new_term(term, valence, arousal) ==
    LET stemmed_word == get(term) IN
    IF stemmed_word.kind = "Ok"
    THEN Returned(insert(custom_words, term,
                         SentimentDictValue(term, stemmed_word.val,
                                            <<valence, arousal>>, <<1, 1>>)),
                  insert(custom_stems, term,
                         SentimentDictValue(term, stemmed_word.val,
                                            <<valence, arousal>>, <<1, 1>>)),
                  Ok(<<>>))
    ELSE Returned(custom_words, custom_stems, stemmed_word)

\* lines 729-755
add_term_without_replacement(term, valence, arousal) ==
    IF does_term_exist(term)
    THEN Returned(custom_words, custom_stems, Err("SentimentTermExists"))
    ELSE insert_new_term(term, valence, arousal)

\* lines 801-833
add_term_with_replacement(term, valence, arousal) ==
    IF term \in DOMAIN custom_words
    THEN Returned([custom_words EXCEPT
                      ![term] = replace_avg(@, valence, arousal)],
                  custom_stems, Ok(<<>>))
    ELSE IF term \in DOMAIN custom_stems
    THEN Returned(custom_words,
                  [custom_stems EXCEPT
                      ![term] = replace_avg(@, valence, arousal)],
                  Ok(<<>>))
    ELSE insert_new_term(term, valence, arousal)

----------------------------------------------------------------------------
(* The calls on a SentimentModel.                                          *)

\* how many calls are made on a model
MaxOps == 3

\* the term arguments: a plural and its stem, a short and a long term that
\* are not ASCII, a term that step2 panics on, the empty string
Terms == {W(<<"c","a","t","s">>), W(<<"c","a","t">>), <<195, 169>>, Hope, W(<<"i","e","s">>), <<>>}

\* the [valence, arousal] arguments
Sentiments == {<<2, 8>>, <<7, 3>>}

\* the custom_words a model is constructed with
WordLexicons ==
    {EmptyMap,
     W(<<"c","a","t">>) :> SentimentDictValue(W(<<"c","a","t">>), W(<<"c","a","t">>), <<5, 4>>, <<2, 2>>),
     Hope :> SentimentDictValue(Hope, Hope, <<6, 5>>, <<2, 2>>)}

\* the custom_stems arguments of add_custom_stems
StemLexicons ==
    {EmptyMap,
     W(<<"c","a","t">>) :> SentimentDictValue(W(<<"c","a","t","s">>), W(<<"c","a","t">>), <<4, 6>>, <<2, 2>>)
         @@ <<195, 169>>
                :> SentimentDictValue(<<195, 169>>, <<195, 169>>,
                                      <<3, 5>>, <<2, 2>>)}

\* the two insertion routines
Adds == {"add_term_without_replacement", "add_term_with_replacement"}

\* a call and its arguments
SentimentCall(fn, term, valence, arousal) ==
    [fn |-> fn, term |-> term, valence |-> valence, arousal |-> arousal]

\* a call can be made: the model exists and no call has panicked
CanCall == s_ops < MaxOps /\ s_ret.kind # "panic"

\* lines 71-79: SentimentModel::new(custom_words)
InitSentiment ==
    /\ custom_words \in WordLexicons
    /\ custom_stems = new_custom_stems
    /\ s_call = NoCall
    /\ s_ret = NoResult
    /\ s_ops = 0
    /\ StemIdle
    /\ TokenIdle
    /\ LsaIdle

\* lines 120-122
AddCustomStems ==
    /\ CanCall
    /\ \E stems \in StemLexicons : custom_stems' = stems
    /\ s_call' = SentimentCall("add_custom_stems", <<>>, 0, 0)
    /\ s_ret' = Ok(<<>>)
    /\ s_ops' = s_ops + 1
    /\ UNCHANGED <<custom_words, stemVars, tokenVars, lsaVars>>

\* the model and the return value of a call become the state
Called(fn, term, valence, arousal, m) ==
    /\ custom_words' = m.custom_words
    /\ custom_stems' = m.custom_stems
    /\ s_call' = SentimentCall(fn, term, valence, arousal)
    /\ s_ret' = m.ret
    /\ s_ops' = s_ops + 1
    /\ UNCHANGED <<stemVars, tokenVars, lsaVars>>

AddTermWithoutReplacement ==
    /\ CanCall
    /\ \E term \in Terms, s \in Sentiments :
           Called("add_term_without_replacement", term, s[1], s[2],
                  add_term_without_replacement(term, s[1], s[2]))

AddTermWithReplacement ==
    /\ CanCall
    /\ \E term \in Terms, s \in Sentiments :
           Called("add_term_with_replacement", term, s[1], s[2],
                  add_term_with_replacement(term, s[1], s[2]))

NextSentiment ==
    \/ AddCustomStems
    \/ AddTermWithoutReplacement
    \/ AddTermWithReplacement

SpecSentiment == InitSentiment /\ [][NextSentiment]_vars

----------------------------------------------------------------------------
(* The LSA entry point of document.rs.  A matrix is modelled by its shape. *)

\* most rows and most columns of a TF-IDF matrix
MaxDim == 4

\* a matrix of r rows and c columns
Shape(r, c) == [nrows |-> r, ncols |-> c]

\* line 192: v_t of nalgebra's SVD has min(nrows, ncols) rows and ncols
\* columns
v_t(m) == Shape(IF m.nrows < m.ncols THEN m.nrows ELSE m.ncols, m.ncols)

\* lines 187-222: the bounds test of line 188, the slice of line 194 (which
\* panics when it asks for more rows than v_t has), and the num_cols by
\* num_cols matrix of lines 201-220
get_lsa_cosine_similarity_from_tfidf(m, k) ==
    IF k > m.ncols THEN Err("LsaOutOfBounds")
    ELSE IF k > v_t(m).nrows THEN Panicked
    ELSE Ok(Shape(v_t(m).ncols, v_t(m).ncols))

\* lines 88-113: a TfidfMatrix has the shape of the term frequencies it is
\* computed from
InitLsa ==
    /\ tfidf_matrix \in {Shape(r, c) : r \in 1..MaxDim, c \in 1..MaxDim}
    /\ lsa_k = 0
    /\ lsa_ret = NoResult
    /\ StemIdle
    /\ TokenIdle
    /\ SentimentIdle

\* a call with k: usize
GetLsaCosineSimilarityFromTfidf ==
    /\ lsa_ret = NoResult
    /\ \E k \in 0..(MaxDim + 1) :
           /\ lsa_k' = k
           /\ lsa_ret' = get_lsa_cosine_similarity_from_tfidf(tfidf_matrix, k)
    /\ UNCHANGED <<tfidf_matrix, stemVars, tokenVars, sentimentVars>>

NextLsa == GetLsaCosineSimilarityFromTfidf

SpecLsa == InitLsa /\ [][NextLsa]_vars

----------------------------------------------------------------------------
(* The states inside a step.  X_trace(s) is the sequence of the Stemmers    *)
(* after each assignment that X makes when it starts from s (each byte      *)
(* written by set_to is one assignment); it is empty when X assigns         *)
(* nothing, and ends with a panicked Stemmer when X panics.                 *)

\* the Stemmer after the assignments of trace tr made from s
Run(s, tr) == IF tr = <<>> THEN s ELSE tr[Len(tr)]

\* lines 174-177: the loop of set_to writes one byte at a time, then
\* bytes_length is assigned
set_to_trace(s, str) ==
    IF s.panicked THEN <<>>
    ELSE IF s.offset + Len(str) > Len(s.bytes) THEN <<Panic(s)>>
    ELSE [i \in 1..Len(str) |->
            [s EXCEPT !.bytes = [k \in 1..Len(s.bytes) |->
                                    IF k > s.offset /\ k <= s.offset + i
                                    THEN str[k - s.offset]
                                    ELSE s.bytes[k]]]]
         \o <<set_to(s, str)>>

\* update_offset(str); set_to(rep)
offset_set_to_trace(s, str, rep) ==
    LET t == update_offset(s, str) IN <<t>> \o set_to_trace(t, rep)

\* update_offset(str); replace(rep)
rule_trace(s, str, rep) ==
    LET t == update_offset(s, str) IN
    <<t>> \o (IF ~t.panicked /\ measure(t) > 0 THEN set_to_trace(t, rep) ELSE <<>>)

arm_trace(s, rules) ==
    LET k == first_match(s, [j \in 1..Len(rules) |-> rules[j][1]]) IN
    IF k = 0 THEN <<>> ELSE rule_trace(s, rules[k][1], rules[k][2])

step1a_trace(s) ==
    IF s.panicked THEN <<>>
    ELSE IF ~InBounds(s, s.bytes_length - 1) THEN <<Panic(s)>>
    ELSE IF Byte(s, s.bytes_length - 1) # Code("s") THEN <<>>
    ELSE IF ends(s, W(<<"s","s","e","s">>))
         THEN LET t == update_offset(s, W(<<"s","s","e","s">>)) IN
              <<t, [t EXCEPT !.bytes_length = @ - 2]>>
    ELSE IF ends(s, W(<<"i","e","s">>)) THEN offset_set_to_trace(s, W(<<"i","e","s">>), W(<<"i">>))
    ELSE IF ~InBounds(s, s.bytes_length - 2) THEN <<Panic(s)>>
    ELSE IF Byte(s, s.bytes_length - 2) # Code("s")
         THEN <<[s EXCEPT !.bytes_length = @ - 1]>>
         ELSE <<>>

step1b_restore_trace(s) ==
    LET t == [s EXCEPT !.bytes_length = s.offset] IN
    <<t>> \o
    (IF ends(t, W(<<"a","t">>)) THEN offset_set_to_trace(t, W(<<"a","t">>), W(<<"a","t","e">>))
     ELSE IF ends(t, W(<<"b","l">>)) THEN offset_set_to_trace(t, W(<<"b","l">>), W(<<"b","l","e">>))
     ELSE IF ends(t, W(<<"i","z">>)) THEN offset_set_to_trace(t, W(<<"i","z">>), W(<<"i","z","e">>))
     ELSE IF t.bytes_length - 1 < 0 THEN <<Panic(t)>>
     ELSE IF double_consonant(t, t.bytes_length - 1)
          THEN LET u == [t EXCEPT !.bytes_length = @ - 1] IN
               <<u>> \o
               (IF ~InBounds(u, u.bytes_length - 1) THEN <<Panic(u)>>
                ELSE IF Byte(u, u.bytes_length - 1) \in {Code("l"), Code("s"), Code("z")}
                     THEN <<[u EXCEPT !.bytes_length = @ + 1]>>
                     ELSE <<>>)
     ELSE IF measure(t) = 1 /\ cvc(t, t.bytes_length - 1)
          THEN set_to_trace(t, W(<<"e">>))
          ELSE <<>>)

step1b_trace(s) ==
    IF s.panicked THEN <<>>
    ELSE IF ends(s, W(<<"e","e","d">>))
         THEN LET t == update_offset(s, W(<<"e","e","d">>)) IN
              <<t>> \o (IF measure(t) > 0
                        THEN <<[t EXCEPT !.bytes_length = @ - 1]>>
                        ELSE <<>>)
    ELSE IF ends(s, W(<<"e","d">>)) \/ ends(s, W(<<"i","n","g">>))
         THEN LET t == IF ends(s, W(<<"e","d">>)) THEN update_offset(s, W(<<"e","d">>))
                       ELSE update_offset(s, W(<<"i","n","g">>))
              IN <<t>> \o (IF has_vowel(t) THEN step1b_restore_trace(t) ELSE <<>>)
    ELSE <<>>

step1ab_trace(s) ==
    LET tr == step1a_trace(s) IN tr \o step1b_trace(Run(s, tr))

step1c_trace(s) ==
    IF s.panicked THEN <<>>
    ELSE IF ends(s, W(<<"y">>))
         THEN LET t == update_offset(s, W(<<"y">>)) IN
              <<t>> \o (IF has_vowel(t)
                        THEN IF ~InBounds(t, t.bytes_length - 1) THEN <<Panic(t)>>
                             ELSE <<[t EXCEPT !.bytes[t.bytes_length] = Code("i")]>>
                        ELSE <<>>)
    ELSE <<>>

step2_trace(s) ==
    IF s.panicked THEN <<>>
    ELSE IF ~InBounds(s, s.bytes_length - 2) THEN <<Panic(s)>>
    ELSE LET c == Byte(s, s.bytes_length - 2) IN
         CASE c = Code("a") -> arm_trace(s, << <<W(<<"a","t","i","o","n","a","l">>), W(<<"a","t","e">>)>>, <<W(<<"t","i","o","n","a","l">>), W(<<"t","i","o","n">>)>> >>)
           [] c = Code("c") -> arm_trace(s, << <<W(<<"e","n","c","i">>), W(<<"e","n","c","e">>)>>, <<W(<<"a","n","c","i">>), W(<<"a","n","c","e">>)>> >>)
           [] c = Code("e") -> arm_trace(s, << <<W(<<"i","z","e","r">>), W(<<"i","z","e">>)>> >>)
           [] c = Code("l") -> arm_trace(s, << <<W(<<"b","l","i">>), W(<<"b","l","e">>)>>, <<W(<<"a","l","l","i">>), W(<<"a","l">>)>>,
                                               <<W(<<"e","n","t","l","i">>), W(<<"e","n","t">>)>>, <<W(<<"e","l","i">>), W(<<"e">>)>>,
                                               <<W(<<"o","u","s","l","i">>), W(<<"o","u","s">>)>> >>)
           [] c = Code("o") -> arm_trace(s, << <<W(<<"i","z","a","t","i","o","n">>), W(<<"i","z","e">>)>>, <<W(<<"a","t","i","o","n">>), W(<<"a","t","e">>)>>,
                                               <<W(<<"a","t","o","r">>), W(<<"a","t","e">>)>> >>)
           [] c = Code("s") -> arm_trace(s, << <<W(<<"a","l","i","s","m">>), W(<<"a","l">>)>>, <<W(<<"i","v","e","n","e","s","s">>), W(<<"i","v","e">>)>>,
                                               <<W(<<"f","u","l","n","e","s","s">>), W(<<"f","u","l">>)>>, <<W(<<"o","u","s","n","e","s","s">>), W(<<"o","u","s">>)>> >>)
           [] c = Code("t") -> arm_trace(s, << <<W(<<"a","l","i","t","i">>), W(<<"a","l">>)>>, <<W(<<"i","v","i","t","i">>), W(<<"i","v","e">>)>>,
                                               <<W(<<"b","i","l","i","t","i">>), W(<<"b","l","e">>)>> >>)
           [] c = Code("g") -> arm_trace(s, << <<W(<<"l","o","g","i">>), W(<<"l","o","g">>)>> >>)
           [] OTHER -> <<>>

step3_trace(s) ==
    IF s.panicked THEN <<>>
    ELSE IF ~InBounds(s, s.bytes_length - 1) THEN <<Panic(s)>>
    ELSE LET c == Byte(s, s.bytes_length - 1) IN
         CASE c = Code("e") -> arm_trace(s, << <<W(<<"i","c","a","t","e">>), W(<<"i","c">>)>>, <<W(<<"a","t","i","v","e">>), <<>> >>,
                                               <<W(<<"a","l","i","z","e">>), W(<<"a","l">>)>> >>)
           [] c = Code("i") -> arm_trace(s, << <<W(<<"i","c","i","t","i">>), W(<<"i","c">>)>> >>)
           [] c = Code("l") -> arm_trace(s, << <<W(<<"i","c","a","l">>), W(<<"i","c">>)>>, <<W(<<"f","u","l">>), <<>> >> >>)
           [] c = Code("s") -> arm_trace(s, << <<W(<<"n","e","s","s">>), <<>> >> >>)
           [] OTHER -> <<>>

\* step4 assigns offset in the arm that matches and bytes_length after it
step4_trace(s) ==
    IF s.panicked THEN <<>>
    ELSE IF ~InBounds(s, s.bytes_length - 2) THEN <<Panic(s)>>
    ELSE LET m == step4_match(s) IN
         (IF m.s = s THEN <<>> ELSE <<m.s>>) \o
         (IF ~m.returned /\ m.byte_was_matched /\ measure(m.s) > 1
          THEN <<[m.s EXCEPT !.bytes_length = m.s.offset]>>
          ELSE <<>>)

step5_trace(s) ==
    IF s.panicked THEN <<>>
    ELSE LET t == [s EXCEPT !.offset = s.bytes_length]
             u == step5_e(s)
             v == step5_ll(u)
         IN <<t>> \o (IF u = t THEN <<>> ELSE <<u>>)
                  \o (IF v = u THEN <<>> ELSE <<v>>)

\* the Stemmer before the step that pc points at, followed by the Stemmers
\* after each of the step's assignments
StepStates ==
    <<self>> \o
    (CASE pc = "step1ab" -> step1ab_trace(self)
       [] pc = "step1c" -> step1c_trace(self)
       [] pc = "step2" -> step2_trace(self)
       [] pc = "step3" -> step3_trace(self)
       [] pc = "step4" -> step4_trace(self)
       [] pc = "step5" -> step5_trace(self)
       [] OTHER -> <<>>)

\* the Stemmer that the step pc points at ends with
StepResult ==
    CASE pc = "step1ab" -> step1ab(self)
      [] pc = "step1c" -> step1c(self)
      [] pc = "step2" -> step2(self)
      [] pc = "step3" -> step3(self)
      [] pc = "step4" -> step4(self)
      [] pc = "step5" -> step5(self)
      [] OTHER -> self

----------------------------------------------------------------------------
(* Properties of stem::get.                                                *)

\* the call of stem::get on `word` has ended
Done == pc = "done"

\* C1: for every pure-ASCII word of more than two bytes stem::get runs all
\* six steps to completion and returns Ok: no step indexes the buffer out of
\* range and no index expression underflows.
C1_AsciiLongWordReturnsOk ==
    (Done /\ is_ascii(word) /\ Len(word) > 2) => result.kind = "Ok"

\* C2: for every word that contains a non-ASCII byte, whatever its byte
\* length, stem::get returns Err(StemNonAscii) and no output string.
C2_NonAsciiWordIsRejected ==
    (Done /\ ~is_ascii(word)) => result = Err("StemNonAscii")

\* C3: for every ASCII word w of 0, 1 or 2 bytes stem::get(w) returns Ok(w),
\* byte for byte the input (upper case kept), and no step runs: no Stemmer
\* is built and the call goes from its entry straight to its end.
C3_ShortWordVerbatim ==
    (is_ascii(word) /\ Len(word) <= 2) =>
        /\ pc \in {"call", "done"}
        /\ bytes = <<>>
        /\ Done => result = Ok(word)

\* a two-byte ASCII word with an upper-case letter has been returned
C3_Witness ==
    /\ Done
    /\ Len(word) = 2
    /\ is_ascii(word)
    /\ \E k \in 1..2 : word[k] = Code("E")
    /\ result = Ok(word)

\* C4: for every ASCII word of more than two bytes for which stem::get
\* returns Ok(s), every byte of s is ASCII and none is an upper-case letter.
C4_OutputLowercaseAscii ==
    (Done /\ is_ascii(word) /\ Len(word) > 2 /\ result.kind = "Ok") =>
        \A k \in 1..Len(result.val) :
            /\ result.val[k] < 128
            /\ ~(result.val[k] >= Code("A") /\ result.val[k] <= Code("Z"))

\* a word of more than two bytes with an upper-case letter has been stemmed
C4_Witness ==
    /\ Done
    /\ Len(word) > 2
    /\ \E k \in 1..Len(word) : word[k] >= Code("A") /\ word[k] <= Code("Z")
    /\ result.kind = "Ok"
    /\ Len(result.val) > 0


\* the word as it stands in the buffer: bytes[0, bytes_length)
Current == get_string(self)

\* C5 as stated: the full pipeline stem::get("agreed") returns Ok("agree").
C5_AgreedGivesAgree ==
    (Done /\ word = W(<<"a","g","r","e","e","d">>)) => result = Ok(W(<<"a","g","r","e","e">>))

\* C5 as amended: step1ab turns "agreed" into "agree", step5 then removes the
\* final e (measure 1, no consonant-vowel-consonant before it), and
\* stem::get("agreed") returns Ok("agre").
C5_AgreedGivesAgre ==
    /\ (pc = "step1c" /\ word = W(<<"a","g","r","e","e","d">>)) => Current = W(<<"a","g","r","e","e">>)
    /\ (Done /\ word = W(<<"a","g","r","e","e","d">>)) => result = Ok(W(<<"a","g","r","e">>))

\* "agreed" has been stemmed
C5_Witness == Done /\ word = W(<<"a","g","r","e","e","d">>) /\ result.kind = "Ok"

\* C6 as stated: the full pipeline stem::get("disabled") returns
\* Ok("disable").
C6_DisabledGivesDisable ==
    (Done /\ word = W(<<"d","i","s","a","b","l","e","d">>)) => result = Ok(W(<<"d","i","s","a","b","l","e">>))

\* C6 as amended: step1ab turns "disabled" into "disable", step5 then removes
\* the final e (measure 2), and stem::get("disabled") returns Ok("disabl").
C6_DisabledGivesDisabl ==
    /\ (pc = "step1c" /\ word = W(<<"d","i","s","a","b","l","e","d">>)) => Current = W(<<"d","i","s","a","b","l","e">>)
    /\ (Done /\ word = W(<<"d","i","s","a","b","l","e","d">>)) => result = Ok(W(<<"d","i","s","a","b","l">>))

\* "disabled" has been stemmed
C6_Witness == Done /\ word = W(<<"d","i","s","a","b","l","e","d">>) /\ result.kind = "Ok"

\* the plural examples: word, stem
PluralCases ==
    {<<W(<<"p","e","n","c","i","l","s">>), W(<<"p","e","n","c","i","l">>)>>, <<W(<<"c","a","r","e","s","s","e","s">>), W(<<"c","a","r","e","s","s">>)>>, <<W(<<"p","o","n","i","e","s">>), W(<<"p","o","n","i">>)>>,
     <<W(<<"t","i","e","s">>), W(<<"t","i">>)>>, <<W(<<"c","a","t","s">>), W(<<"c","a","t">>)>>}

\* C7: stem::get maps pencils, caresses, ponies, ties, cats to pencil,
\* caress, poni, ti, cat: step 1a shortens the plural and no later step
\* alters the result.
C7_Plurals ==
    \A c \in PluralCases :
        /\ (pc = "step1c" /\ word = c[1]) => Current = c[2]
        /\ (Done /\ word = c[1]) => result = Ok(c[2])

\* "ties" has been stemmed to the two-byte "ti"
C7_Witness == Done /\ word = W(<<"t","i","e","s">>) /\ result = Ok(W(<<"t","i">>))

\* the -ing examples: word, stem
IngCases ==
    {<<W(<<"m","a","t","t","i","n","g">>), W(<<"m","a","t">>)>>, <<W(<<"m","a","t","i","n","g">>), W(<<"m","a","t","e">>)>>, <<W(<<"m","e","e","t","i","n","g">>), W(<<"m","e","e","t">>)>>,
     <<W(<<"m","i","l","l","i","n","g">>), W(<<"m","i","l","l">>)>>, <<W(<<"m","e","s","s","i","n","g">>), W(<<"m","e","s","s">>)>>, <<W(<<"m","e","e","t","i","n","g","s">>), W(<<"m","e","e","t">>)>>}

\* C8: stem::get maps matting, mating, meeting, milling, messing, meetings
\* to mat, mate, meet, mill, mess, meet.
C8_Ing ==
    \A c \in IngCases : (Done /\ word = c[1]) => result = Ok(c[2])

\* "mating" has been stemmed to "mate" and "matting" is a word of the run
C8_Witness == Done /\ word = W(<<"m","a","t","i","n","g">>) /\ result = Ok(W(<<"m","a","t","e">>))

\* the Stemmer after the plural rules of step 1a, before the -eed test
AfterStep1a == step1a(new(word))

\* the measure of the part of AfterStep1a before its last three bytes
MeasureBeforeEed == measure(update_offset(AfterStep1a, W(<<"e","e","d">>)))

\* C9: in step 1b the -eed rule takes precedence over the -ed rule: for every
\* word that ends in "eed" after step 1a, step1ab removes the last byte iff
\* the measure of the part before "eed" is > 0 and otherwise leaves the word
\* as step 1a left it; stem::get("feed") is "feed".
C9_EedBeforeEd ==
    /\ (pc = "step1c" /\ ends(AfterStep1a, W(<<"e","e","d">>))) =>
          LET before == get_string(AfterStep1a) IN
          IF MeasureBeforeEed > 0
          THEN Current = SubSeq(before, 1, Len(before) - 1)
          ELSE Current = before
    /\ (Done /\ word = W(<<"f","e","e","d">>)) => result = Ok(W(<<"f","e","e","d">>))

\* step1ab has left alone a word in "eed" whose part before "eed" has measure
\* 0, though the part before "ed" has a vowel (the -ed rule would have cut it)
C9_Witness ==
    /\ pc = "step1c"
    /\ ends(AfterStep1a, W(<<"e","e","d">>))
    /\ MeasureBeforeEed = 0
    /\ has_vowel(update_offset(AfterStep1a, W(<<"e","d">>)))
    /\ Current = get_string(AfterStep1a)

\* C10 as stated: for every word w of the literal cases
\* stem::get(stem::get(w)) = stem::get(w).
C10_LiteralsIdempotent ==
    (Done /\ calls >= 2 /\ orig \in LiteralWords) => result = Ok(word)

\* C10 as amended: stem::get(stem::get(w)) = stem::get(w) for every word of
\* the literal cases but "agreed", whose stem "agre" is stemmed to "agr".
C10_LiteralsIdempotentButAgreed ==
    /\ (Done /\ calls >= 2 /\ orig \in LiteralWords \ {W(<<"a","g","r","e","e","d">>)}) =>
          result = Ok(word)
    /\ (Done /\ calls = 2 /\ orig = W(<<"a","g","r","e","e","d">>)) =>
          word = W(<<"a","g","r","e">>) /\ result = Ok(W(<<"a","g","r">>))

\* the stem of "caresses" has been stemmed again
C10_Witness ==
    Done /\ calls = 2 /\ orig = W(<<"c","a","r","e","s","s","e","s">>) /\ word = W(<<"c","a","r","e","s","s">>) /\ result = Ok(word)


\* C11 as stated: in every state reached while stemming, also after every
\* assignment inside a step, offset <= bytes_length <= bytes.len().
C11_OffsetLeLengthLeCapacity ==
    \A k \in 1..Len(StepStates) :
        /\ StepStates[k].offset <= StepStates[k].bytes_length
        /\ StepStates[k].bytes_length <= Len(StepStates[k].bytes)

\* C11 as amended: in every state reached while stemming, also after every
\* assignment inside a step, bytes_length <= bytes.len() and
\* offset <= bytes.len(); offset <= bytes_length does not hold (step1ab
\* removes one of a double consonant and step5 removes a final e or l after
\* offset was set), but offset never exceeds bytes_length by more than 2.
\* The last of the states inside a step is the state the step ends with.
C11_LengthAndOffsetLeCapacity ==
    /\ \A k \in 1..Len(StepStates) :
          LET t == StepStates[k] IN
          /\ 0 <= t.bytes_length /\ t.bytes_length <= Len(t.bytes)
          /\ 0 <= t.offset /\ t.offset <= Len(t.bytes)
          /\ t.offset <= t.bytes_length + 2
    /\ StepStates[Len(StepStates)] = StepResult

\* inside step5 an assignment leaves offset two above bytes_length
C11_Witness ==
    /\ pc = "step5"
    /\ \E k \in 1..Len(StepStates) :
          StepStates[k].offset = StepStates[k].bytes_length + 2

\* C12: for every ASCII word of more than two bytes step1ab, step1c, step2,
\* step3, step4 and step5 run once each in this order, and the call then
\* ends with the result string.
C12_StepsInOrder ==
    [][/\ pc = "step1ab" => pc' = "step1c"
       /\ pc = "step1c" => pc' = "step2"
       /\ pc = "step2" => pc' = "step3"
       /\ pc = "step3" => pc' = "step4"
       /\ pc = "step4" => pc' = "step5"
       /\ pc = "step5" => pc' = "get"
       /\ pc = "get" => (pc' = "done" /\ result'.kind = "Ok")]_vars

\* the key a stemmed builder is to count a token under: the token itself
\* when stem::get fails with StemNonAscii, its stem otherwise
StemOrToken(token) ==
    IF get(token) = Err("StemNonAscii") THEN token ELSE get(token).val

\* C13: for every token sequence get_stemmed_term_frequencies_from_word_vector
\* returns a map, in which a token whose stem::get fails with StemNonAscii is
\* counted under its own text and every other token under its stem.
C13_StemmedBuilderReturnsMap ==
    tf_call.fn = "get_stemmed_term_frequencies_from_word_vector" =>
        /\ tf_ret.kind = "Ok"
        /\ DOMAIN tf_ret.val
               = {StemOrToken(tf_call.input[j]) : j \in 1..Len(tf_call.input)}
        /\ \A t \in DOMAIN tf_ret.val :
               tf_ret.val[t]
                   = Cardinality({j \in 1..Len(tf_call.input) :
                                      StemOrToken(tf_call.input[j]) = t})

\* the term of the call made by this step is a key of neither lexicon
TermIsNew == s_call'.term \notin DOMAIN custom_words \cup DOMAIN custom_stems

\* this step is a call of an insertion routine with the term t, which is a
\* key of neither lexicon
AddsNewTerm(t) == s_call'.fn \in Adds /\ s_call'.term = t /\ TermIsNew

\* C14: add_term_with_replacement and add_term_without_replacement, called
\* with a term that has a non-ASCII character and is in neither lexicon,
\* return Err(StemNonAscii) and leave custom_words and custom_stems as they
\* were.
C14_NonAsciiTermIsRejected ==
    [][\A t \in Terms :
           (AddsNewTerm(t) /\ ~is_ascii(t)) =>
               /\ s_ret' = Err("StemNonAscii")
               /\ UNCHANGED <<custom_words, custom_stems>>]_vars

\* C15: add_term_without_replacement returns Err(SentimentTermExists)
\* exactly when the term was a key of custom_words or custom_stems before
\* the call, and then leaves both lexicons as they were; a term added with
\* Ok is a key of custom_words, no call removes a key of custom_words, and
\* adding the same term again right away fails with SentimentTermExists.
C15_ExistsIffTermExisted ==
    [][/\ DOMAIN custom_words \subseteq DOMAIN custom_words'
       /\ s_call'.fn = "add_term_without_replacement" =>
           /\ s_ret' = Err("SentimentTermExists") <=> ~TermIsNew
           /\ s_ret' = Err("SentimentTermExists") =>
                  UNCHANGED <<custom_words, custom_stems>>
           /\ s_ret'.kind = "Ok" => s_call'.term \in DOMAIN custom_words'
           /\ (/\ s_call.fn = "add_term_without_replacement"
               /\ s_ret.kind = "Ok"
               /\ s_call'.term = s_call.term) =>
                  s_ret' = Err("SentimentTermExists")]_vars

\* an add_term_without_replacement with other values failed for a term that
\* an earlier call had added (the lexicons of the model's construction and
\* of add_custom_stems have std [2, 2])
C15_Witness ==
    /\ s_call.fn = "add_term_without_replacement"
    /\ s_ret = Err("SentimentTermExists")
    /\ s_call.term \in DOMAIN custom_words
    /\ custom_words[s_call.term].std = <<1, 1>>
    /\ custom_words[s_call.term].avg # <<s_call.valence, s_call.arousal>>

\* C16: after add_term_with_replacement(t, v, a) or
\* add_term_without_replacement(t, v, a) has returned Ok,
\* get_sentiment_for_term(t) returns valence v and arousal a, whichever
\* lexicons t was a key of.
C16_AddedSentimentIsReturned ==
    (s_call.fn \in Adds /\ s_ret.kind = "Ok") =>
        get_sentiment_for_term(s_call.term)
            = [valence |-> s_call.valence, arousal |-> s_call.arousal]

\* add_term_with_replacement has replaced the values of a term that is a
\* key of custom_stems only
C16_Witness ==
    /\ s_call.fn = "add_term_with_replacement"
    /\ s_ret.kind = "Ok"
    /\ s_call.term \notin DOMAIN custom_words
    /\ s_call.term \in DOMAIN custom_stems
    /\ custom_stems[s_call.term].std = <<2, 2>>
    /\ get_sentiment_for_term(s_call.term) = [valence |-> 7, arousal |-> 3]

\* C17: when add_term_with_replacement or add_term_without_replacement adds
\* a new ASCII term t with Ok, custom_stems gains the key stem::get(t), so
\* that does_term_exist(stem::get(t)) is true afterwards (the stem is a key
\* of one of the lexicons).
C17_StemIsKeyOfStemLexicon ==
    [][\A t \in Terms :
           (AddsNewTerm(t) /\ is_ascii(t) /\ s_ret'.kind = "Ok") =>
               /\ get(t).val \in DOMAIN custom_stems'
               /\ get(t).val
                      \in DOMAIN custom_words' \cup DOMAIN custom_stems']_vars

\* C18: get_lsa_cosine_similarity_from_tfidf(k) returns Err(LsaOutOfBounds)
\* for every k outside 1 <= k <= n, n the number of columns of the TF-IDF
\* matrix, and returns Ok only when 1 <= k <= n.
C18_ErrUnlessKWithinBounds ==
    lsa_ret # NoResult =>
        /\ ~(1 <= lsa_k /\ lsa_k <= tfidf_matrix.ncols) =>
               lsa_ret = Err("LsaOutOfBounds")
        /\ lsa_ret.kind = "Ok" => (1 <= lsa_k /\ lsa_k <= tfidf_matrix.ncols)

\* the call in tf_call counts the token (it is not one of its stop words)
IsCounted(token) == token \notin tf_call.stop_words

\* the term the call in tf_call counts the token under
TermOf(token) ==
    IF tf_call.fn \in StemmedBuilders
    THEN unwrap_or_word(get(token), token)
    ELSE token

\* the terms of the counted tokens, in the order of the tokens
RECURSIVE TermsOfTokens(_)
TermsOfTokens(tokens) ==
    IF tokens = <<>> THEN <<>>
    ELSE IF IsCounted(Head(tokens))
    THEN <<TermOf(Head(tokens))>> \o TermsOfTokens(Tail(tokens))
    ELSE TermsOfTokens(Tail(tokens))

\* the terms of each sentence, in the order of their occurrences
RECURSIVE TermsOfSentences(_)
TermsOfSentences(sentences) ==
    IF sentences = <<>> THEN <<>>
    ELSE <<TermsOfTokens(tokenize_sentence(Head(sentences)))>>
             \o TermsOfSentences(Tail(sentences))

\* the positions of terms that hold term
OccurrencesOf(term, terms) == {j \in 1..Len(terms) : terms[j] = term}

\* C19: the maps that get_term_frequencies_from_sentences and its stemmed
\* and stop-word variants return, one for each sentence, all have the same
\* key set, the union of the terms of all sentences; the i-th map gives a
\* term the number of its occurrences in sentence i, 0 when it has none.
C19_SentenceMapsShareTheirKeys ==
    (tf_call.fn \in SentencesBuilders /\ tf_ret.kind = "Ok") =>
        LET terms == TermsOfSentences(tf_call.input)
            all_terms == UNION {{terms[i][j] : j \in 1..Len(terms[i])} :
                                   i \in 1..Len(terms)}
        IN  /\ Len(tf_ret.val) = Len(tf_call.input)
            /\ \A i \in 1..Len(terms) :
                   /\ DOMAIN tf_ret.val[i] = all_terms
                   /\ \A t \in all_terms :
                          tf_ret.val[i][t]
                              = Cardinality(OccurrencesOf(t, terms[i]))

\* a stemmed builder with stop words returned two maps; a term occurs twice
\* in the first sentence, as two different words, and not in the second
C19_Witness ==
    /\ tf_call.fn
           = "get_stemmed_term_frequencies_from_sentences_without_stop_words"
    /\ tf_ret.kind = "Ok"
    /\ Len(tf_ret.val) = 2
    /\ tf_call.stop_words = {W(<<"i","e","s">>), W(<<"T","h","e">>)}
    /\ tf_call.input[1] = W(<<"c","a","t","s">>) \o <<32>> \o W(<<"c","a","t">>) \o <<46, 9>>
    /\ tf_ret.val[1][W(<<"c","a","t">>)] = 2
    /\ tf_ret.val[2][W(<<"c","a","t">>)] = 0

\* the positions i of [0, off) with a vowel at i - 1 and a consonant at i
VowelConsonantPairs(s, off) ==
    {i \in 1..(off - 1) : ~is_consonant(s, i - 1) /\ is_consonant(s, i)}

\* C20: for every buffer and every offset in 0..=len, measure returns the
\* number of positions i, 0 < i < offset, with a vowel at i - 1 and a
\* consonant at i (the m of <C>?(VC)^m<V>?).
C20_MeasureCountsVowelConsonantPairs ==
    \A off \in 0..Len(bytes) :
        measure([self EXCEPT !.offset = off])
            = Cardinality(VowelConsonantPairs(self, off))

\* a buffer of measure 2 that has a y standing for a vowel
C20_Witness ==
    /\ pc = "step1ab"
    /\ measure([self EXCEPT !.offset = Len(bytes)]) = 2
    /\ \E i \in 1..(Len(bytes) - 1) :
          Byte(self, i) = Code("y") /\ ~is_consonant(self, i)

----------------------------------------------------------------------------
(* Properties of the single steps.                                         *)

\* the suffixes of step 2 with their replacements, in the order listed
Step2Table ==
    << <<W(<<"a","t","i","o","n","a","l">>), W(<<"a","t","e">>)>>, <<W(<<"t","i","o","n","a","l">>), W(<<"t","i","o","n">>)>>, <<W(<<"e","n","c","i">>), W(<<"e","n","c","e">>)>>, <<W(<<"a","n","c","i">>), W(<<"a","n","c","e">>)>>,
       <<W(<<"i","z","e","r">>), W(<<"i","z","e">>)>>, <<W(<<"b","l","i">>), W(<<"b","l","e">>)>>, <<W(<<"a","l","l","i">>), W(<<"a","l">>)>>, <<W(<<"e","n","t","l","i">>), W(<<"e","n","t">>)>>,
       <<W(<<"e","l","i">>), W(<<"e">>)>>, <<W(<<"o","u","s","l","i">>), W(<<"o","u","s">>)>>, <<W(<<"i","z","a","t","i","o","n">>), W(<<"i","z","e">>)>>, <<W(<<"a","t","i","o","n">>), W(<<"a","t","e">>)>>,
       <<W(<<"a","t","o","r">>), W(<<"a","t","e">>)>>, <<W(<<"a","l","i","s","m">>), W(<<"a","l">>)>>, <<W(<<"i","v","e","n","e","s","s">>), W(<<"i","v","e">>)>>, <<W(<<"f","u","l","n","e","s","s">>), W(<<"f","u","l">>)>>,
       <<W(<<"o","u","s","n","e","s","s">>), W(<<"o","u","s">>)>>, <<W(<<"a","l","i","t","i">>), W(<<"a","l">>)>>, <<W(<<"i","v","i","t","i">>), W(<<"i","v","e">>)>>, <<W(<<"b","i","l","i","t","i">>), W(<<"b","l","e">>)>>,
       <<W(<<"l","o","g","i">>), W(<<"l","o","g">>)>> >>

\* the suffixes of step 3 with their replacements, in the order listed
Step3Table ==
    << <<W(<<"i","c","a","t","e">>), W(<<"i","c">>)>>, <<W(<<"a","t","i","v","e">>), <<>> >>, <<W(<<"a","l","i","z","e">>), W(<<"a","l">>)>>, <<W(<<"i","c","i","t","i">>), W(<<"i","c">>)>>,
       <<W(<<"i","c","a","l">>), W(<<"i","c">>)>>, <<W(<<"f","u","l">>), <<>> >>, <<W(<<"n","e","s","s">>), <<>> >> >>

\* the string w ends with the string suf
EndsWith(w, suf) ==
    Len(suf) <= Len(w) /\ SubSeq(w, Len(w) - Len(suf) + 1, Len(w)) = suf

\* the part of w before its last n bytes
Before(w, n) == SubSeq(w, 1, Len(w) - n)

\* the measure of the string w
MeasureOf(w) == measure(Stemmer(w, Len(w), Len(w)))

\* the first entry of the table whose suffix w ends with, 0 if there is none;
\* suffixes of different branches differ in the byte that selects the branch,
\* so the first entry of the table is the first of its branch
FirstListed(w, table) ==
    IF \E k \in 1..Len(table) : EndsWith(w, table[k][1])
    THEN CHOOSE k \in 1..Len(table) :
            /\ EndsWith(w, table[k][1])
            /\ \A j \in 1..(k - 1) : ~EndsWith(w, table[j][1])
    ELSE 0

\* the word that a step with this table is to leave in place of w
OneRule(w, table) ==
    LET k == FirstListed(w, table) IN
    IF k = 0 THEN w
    ELSE LET before == Before(w, Len(table[k][1])) IN
         IF MeasureOf(before) > 0 THEN before \o table[k][2] ELSE w

\* C21: steps 2 and 3 apply at most one rule each: the first listed suffix
\* that the word ends with is the only rule considered; it is replaced by
\* its table replacement iff the measure of the part before it is > 0, and
\* otherwise the word is left as it is, no shorter suffix being tried.
C21_OneRulePerStep ==
    [][/\ pc = "step2" =>
            SubSeq(bytes', 1, bytes_length') = OneRule(Current, Step2Table)
       /\ pc = "step3" =>
            SubSeq(bytes', 1, bytes_length') = OneRule(Current, Step3Table)]_vars

\* step 2 has left "trization" alone: "tr" before -ization has measure 0,
\* though "triz" before the shorter -ation has measure 1
C21_Witness ==
    /\ pc = "step3"
    /\ word = W(<<"t","r","i","z","a","t","i","o","n">>)
    /\ Current = W(<<"t","r","i","z","a","t","i","o","n">>)
    /\ MeasureOf(W(<<"t","r">>)) = 0
    /\ MeasureOf(W(<<"t","r","i","z">>)) > 0

\* the suffixes of step 4, in the order listed
Step4Table ==
    <<W(<<"a","l">>), W(<<"a","n","c","e">>), W(<<"e","n","c","e">>), W(<<"e","r">>), W(<<"i","c">>), W(<<"a","b","l","e">>), W(<<"i","b","l","e">>), W(<<"a","n","t">>), W(<<"e","m","e","n","t">>), W(<<"m","e","n","t">>),
      W(<<"e","n","t">>), W(<<"i","o","n">>), W(<<"o","u">>), W(<<"i","s","m">>), W(<<"a","t","e">>), W(<<"i","t","i">>), W(<<"o","u","s">>), W(<<"i","v","e">>), W(<<"i","z","e">>)>>

\* the first suffix of Step4Table that w ends with, <<>> if there is none;
\* as in steps 2 and 3 it is the first of its branch
FirstListed4(w) ==
    LET k == FirstListed(w, [j \in 1..Len(Step4Table) |-> <<Step4Table[j], <<>> >>]) IN
    IF k = 0 THEN <<>> ELSE Step4Table[k]

\* step 4 is to truncate w
Step4Truncates(w) ==
    LET suf == FirstListed4(w)
        before == Before(w, Len(suf))
    IN /\ suf # <<>>
       /\ MeasureOf(before) > 1
       /\ suf = W(<<"i","o","n">>) =>
             /\ Len(before) > 0
             /\ before[Len(before)] \in {Code("s"), Code("t")}

\* C22: step 4 truncates the word to the part before the matched suffix iff
\* the word ends with a suffix of the fixed set (the first match in its
\* branch only), the measure of the part before it is > 1 and, for -ion, the
\* byte before the suffix exists and is s or t; in every other case step 4
\* leaves the word and its length unchanged.
C22_Step4Truncates ==
    [][pc = "step4" =>
          IF Step4Truncates(Current)
          THEN /\ SubSeq(bytes', 1, bytes_length') = Before(Current, Len(FirstListed4(Current)))
               /\ bytes_length' < bytes_length
          ELSE /\ SubSeq(bytes', 1, bytes_length') = Current
               /\ bytes_length' = bytes_length]_vars

\* step 4 has left "relement" alone: "rel" before -ement has measure 1,
\* though "relem" before the shorter -ent has measure 2
C22_Witness ==
    /\ pc = "step5"
    /\ word = W(<<"r","e","l","e","m","e","n","t">>)
    /\ Current = W(<<"r","e","l","e","m","e","n","t">>)
    /\ FirstListed4(Current) = W(<<"e","m","e","n","t">>)
    /\ MeasureOf(W(<<"r","e","l","e","m">>)) > 1

\* the last three bytes of w are consonant, vowel, consonant and the last one
\* is not w, x or y
EndsInCvc(w) ==
    LET s == Stemmer(w, Len(w), Len(w)) IN
    /\ Len(w) >= 3
    /\ is_consonant(s, Len(w) - 3)
    /\ ~is_consonant(s, Len(w) - 2)
    /\ is_consonant(s, Len(w) - 1)
    /\ w[Len(w)] \notin {Code("w"), Code("x"), Code("y")}

\* the first rule of step 5 is to remove the final e of w
Step5RemovesE(w) ==
    LET m == MeasureOf(Before(w, 1)) IN
    /\ EndsWith(w, W(<<"e">>))
    /\ m > 1 \/ (m = 1 /\ ~EndsInCvc(Before(w, 1)))

AfterFinalE == get_string(step5_e(self))

\* C24: in step 5 the ll rule collapses a final doubled l to a single l iff
\* the word, as it stands after any removal of a final e by the first rule,
\* ends in ll and the measure of that whole word is > 1; the value of
\* measure that the code tests is the measure of that word.
C24_Step5DoubleL ==
    [][pc = "step5" =>
          /\ EndsWith(AfterFinalE, W(<<"l","l">>)) =>
                measure(step5_e(self)) = MeasureOf(AfterFinalE)
          /\ SubSeq(bytes', 1, bytes_length') =
                IF EndsWith(AfterFinalE, W(<<"l","l">>)) /\ MeasureOf(AfterFinalE) > 1
                THEN Before(AfterFinalE, 1)
                ELSE AfterFinalE]_vars

\* step 5 has removed the e of "fallelle" and then one l of "fallell"
C24_Witness ==
    /\ pc = "get"
    /\ word = W(<<"f","a","l","l","e","l","l","e">>)
    /\ Current = W(<<"f","a","l","l","e","l">>)
    /\ MeasureOf(W(<<"f","a","l","l","e","l","l">>)) > 1

\* some byte of w is a vowel
HasVowel(w) ==
    \E i \in 0..(Len(w) - 1) : ~is_consonant(Stemmer(w, Len(w), Len(w)), i)

\* the last two bytes of w are one consonant twice
EndsInDoubleConsonant(w) ==
    /\ Len(w) >= 2
    /\ w[Len(w)] = w[Len(w) - 1]
    /\ is_consonant(Stemmer(w, Len(w), Len(w)), Len(w) - 1)

\* the one restoration of the truncated word t, by priority
Restored(t) ==
    IF EndsWith(t, W(<<"a","t">>)) \/ EndsWith(t, W(<<"b","l">>)) \/ EndsWith(t, W(<<"i","z">>)) THEN t \o W(<<"e">>)
    ELSE IF EndsInDoubleConsonant(t)
         THEN IF t[Len(t)] \in {Code("l"), Code("s"), Code("z")} THEN t ELSE Before(t, 1)
    ELSE IF MeasureOf(t) = 1 /\ EndsInCvc(t) THEN t \o W(<<"e">>)
    ELSE t

\* what the -ed / -ing rule makes of a word w that ends in ed or ing
EdIngRule(w) ==
    LET t == IF EndsWith(w, W(<<"e","d">>)) THEN Before(w, 2) ELSE Before(w, 3) IN
    IF HasVowel(t) THEN Restored(t) ELSE w

\* the word that step 1b starts from
WordAfterStep1a == get_string(AfterStep1a)

\* C25 as stated: step 1b turns every word ending in ed or ing into
\* EdIngRule of it: the suffix is dropped when a vowel precedes it and one
\* restoration applies to the truncated word.
C25_EdIngRestoration ==
    (pc = "step1c" /\ (EndsWith(WordAfterStep1a, W(<<"e","d">>)) \/ EndsWith(WordAfterStep1a, W(<<"i","n","g">>)))) =>
        Current = EdIngRule(WordAfterStep1a)

\* C25 as amended: step 1b turns every word ending in ed or ing, but not in
\* eed, into EdIngRule of it; a word ending in eed is left to the -eed rule:
\* it loses at most its last byte, and "feed" stays "feed" although a vowel
\* precedes its "ed".
C25_EdIngRestorationButEed ==
    /\ (/\ pc = "step1c"
        /\ EndsWith(WordAfterStep1a, W(<<"e","d">>)) \/ EndsWith(WordAfterStep1a, W(<<"i","n","g">>))
        /\ ~EndsWith(WordAfterStep1a, W(<<"e","e","d">>))) =>
           Current = EdIngRule(WordAfterStep1a)
    /\ (pc = "step1c" /\ EndsWith(WordAfterStep1a, W(<<"e","e","d">>))) =>
           Current \in {WordAfterStep1a, Before(WordAfterStep1a, 1)}
    /\ (pc = "step1c" /\ word = W(<<"f","e","e","d">>)) => Current = W(<<"f","e","e","d">>)

\* step 1b has dropped the -ing of "hoping" and appended e to "hop"
C25_Witness ==
    /\ pc = "step1c"
    /\ word = W(<<"h","o","p","i","n","g">>)
    /\ Current = W(<<"h","o","p","e">>)
    /\ EdIngRule(WordAfterStep1a) = W(<<"h","o","p","e">>)

SetToFramed(t, rep) ==
    LET u == set_to(t, rep) IN
    /\ ~u.panicked
    /\ u.offset = t.offset
    /\ Len(u.bytes) = Len(t.bytes)
    /\ SubSeq(u.bytes, 1, t.offset) = SubSeq(t.bytes, 1, t.offset)
    /\ u.bytes_length = t.offset + Len(rep)
    /\ get_string(u) = SubSeq(t.bytes, 1, t.offset) \o rep
    /\ LET tr == set_to_trace(t, rep) IN
       /\ tr[Len(tr)] = u
       /\ \A k \in 1..(Len(tr) - 1) : tr[k].bytes_length = t.bytes_length

\* replace(rep) on the Stemmer t is set_to(rep) when the measure is > 0 and
\* nothing otherwise
ReplaceFramed(t, rep) ==
    IF measure(t) > 0
    THEN replace(t, rep) = set_to(t, rep) /\ SetToFramed(t, rep)
    ELSE replace(t, rep) = t

\* the Stemmer after line 233, when step 1b drops -ed or -ing from s
DroppedEdIng(s) ==
    LET t == IF ends(s, W(<<"e","d">>)) THEN update_offset(s, W(<<"e","d">>)) ELSE update_offset(s, W(<<"i","n","g">>))
    IN [t EXCEPT !.bytes_length = t.offset]

\* step 1b drops -ed or -ing from s
DropsEdIng(s) ==
    /\ ~ends(s, W(<<"e","e","d">>))
    /\ ends(s, W(<<"e","d">>)) \/ ends(s, W(<<"i","n","g">>))
    /\ has_vowel(IF ends(s, W(<<"e","d">>)) THEN update_offset(s, W(<<"e","d">>)) ELSE update_offset(s, W(<<"i","n","g">>)))

\* the suffixes that step 1b completes with an e
Step1bTable == << <<W(<<"a","t">>), W(<<"a","t","e">>)>>, <<W(<<"b","l">>), W(<<"b","l","e">>)>>, <<W(<<"i","z">>), W(<<"i","z","e">>)>> >>

\* every rule of the table whose suffix s ends with is framed
RulesFramed(s, table, measured) ==
    \A k \in 1..Len(table) :
        ends(s, table[k][1]) =>
            IF measured
            THEN ReplaceFramed(update_offset(s, table[k][1]), table[k][2])
            ELSE SetToFramed(update_offset(s, table[k][1]), table[k][2])

\* C27: suffix matching and rewriting are framed: a replace() with measure
\* 0 leaves bytes and bytes_length unchanged, and every set_to() / replace()
\* that applies leaves bytes[0, offset) unchanged and sets the word to
\* bytes[0, offset) ++ replacement with bytes_length = offset +
\* len(replacement); the bytes are written before bytes_length is, and the
\* next step starts from the completed replacement.
C27_RewritingIsFramed ==
    /\ pc = "step1ab" =>
          /\ RulesFramed(self, << <<W(<<"i","e","s">>), W(<<"i">>)>> >>, FALSE)
          /\ DropsEdIng(step1a(self)) =>
                /\ RulesFramed(DroppedEdIng(step1a(self)), Step1bTable, FALSE)
                /\ SetToFramed(DroppedEdIng(step1a(self)), W(<<"e">>))
    /\ pc = "step2" => RulesFramed(self, Step2Table, TRUE)
    /\ pc = "step3" => RulesFramed(self, Step3Table, TRUE)
    /\ StepStates[Len(StepStates)] = StepResult

\* step 2 has written "ize" over the "iza" of "generization": the five
\* bytes before it and the four after it are as they were
C27_Witness ==
    /\ pc = "step3"
    /\ word = W(<<"g","e","n","e","r","i","z","a","t","i","o","n">>)
    /\ bytes = W(<<"g","e","n","e","r","i","z","e","t","i","o","n">>)
    /\ bytes_length = 8
    /\ offset = 5

\* C28: the stem never grows: for every ASCII word of more than two bytes
\* bytes_length never exceeds the byte length of the word at any point of
\* the pipeline, set_to never writes at an index >= bytes.len() (the
\* replacements longer than the suffix they follow fit in the space that
\* dropping -ed or -ing has freed), and the returned stem is no longer than
\* the word.
C28_StemNeverGrows ==
    /\ pc \notin {"call", "done", "idle"} =>
          /\ Len(bytes) = Len(word)
          /\ \A k \in 1..Len(StepStates) :
                /\ StepStates[k].bytes_length <= Len(word)
                /\ Len(StepStates[k].bytes) = Len(word)
          /\ StepResult.panicked => (pc = "step2" /\ bytes_length < 2)
          /\ pc = "step1ab" /\ DropsEdIng(step1a(self)) =>
                LET t == DroppedEdIng(step1a(self)) IN
                /\ t.offset + 1 <= Len(t.bytes)
                /\ \A k \in 1..Len(Step1bTable) :
                      ends(t, Step1bTable[k][1]) =>
                          ~set_to(update_offset(t, Step1bTable[k][1]), Step1bTable[k][2]).panicked
    /\ (Done /\ is_ascii(word) /\ Len(word) > 2 /\ result.kind = "Ok") =>
          Len(result.val) <= Len(word)

\* step 1b has dropped the -ed of "hopated" and written "ate" over "at":
\* the longer replacement fits in the buffer
C28_Witness ==
    /\ pc = "step1c"
    /\ word = W(<<"h","o","p","a","t","e","d">>)
    /\ Current = W(<<"h","o","p","a","t","e">>)
    /\ bytes_length < Len(bytes)

\* C29: stemming is case-insensitive and stateless for words of more than
\* two bytes: for every ASCII word w with len(w) > 2, stem::get(w) is
\* stem::get(ascii_lowercase(w)), and the result of stem::get(w) is the same
\* whatever was stemmed before it: it is the value of the function get at w
\* in the first call and in a call that follows another.
C29_CaseInsensitiveAndStateless ==
    (Done /\ is_ascii(word) /\ Len(word) > 2) =>
        /\ result = get(to_ascii_lowercase(word))
        /\ result = get(word)

\* "Sensing" has been stemmed to "sens", as "sensing" is
C29_Witness ==
    /\ Done
    /\ word = W(<<"S","e","n","s","i","n","g">>)
    /\ result = Ok(W(<<"s","e","n","s">>))
    /\ get(W(<<"s","e","n","s","i","n","g">>)) = Ok(W(<<"s","e","n","s">>))

----------------------------------------------------------------------------
(* Properties of a new SentimentModel.                                     *)

\* C30: on a SentimentModel freshly built by SentimentModel::new
\* (custom_words), does_term_exist(t) is true exactly for the keys of
\* custom_words: for every string t that is not such a key, the empty
\* string too, does_term_exist(t) is false and add_term_without_replacement
\* (t, v, a) does not fail with SentimentTermExists.
C30_NewModelKnowsItsWordsOnly ==
    s_ops = 0 =>
        \A t \in Terms :
            /\ does_term_exist(t) <=> t \in DOMAIN custom_words
            /\ t \notin DOMAIN custom_words =>
                  \A s \in Sentiments :
                      add_term_without_replacement(t, s[1], s[2]).ret
                          # Err("SentimentTermExists")

====
